---- MODULE Spec2Model ----
(***************************************************************************)
(* Model of romshark/tik (tik-go): the TIK tokenizer (Tokenizer.Tokenize), *)
(* the Parser wrapper (Parser.ParseFn / Parser.Parse) and the ICU message  *)
(* translator (ICUTranslator.TIK2ICUBuf / writeModifiers).                 *)
(*                                                                         *)
(* A Go string is a sequence of one-character strings.  Offsets are the    *)
(* 0-based byte offsets of the Go code; the inputs are ASCII, so every     *)
(* rune is one byte wide (utf8.DecodeRuneInString returns size 1).         *)
(***************************************************************************)
EXTENDS Integers, Sequences, FiniteSets, TLC

(***************************************************************************)
(* Bounds of the model.                                                    *)
(***************************************************************************)
\* An input is the concatenation of at most MaxPieces fragments.
MaxPieces == 3
\* The modifier maps handed to TIK2ICU have their keys in 0..MaxModKey.
MaxModKey == 1

(***************************************************************************)
(* Go string and slice primitives.                                         *)
(***************************************************************************)
\* s[i] with the 0-based index of Go.
At(s, i) == s[i + 1]

\* s[a:b] with the 0-based half-open bounds of Go.
Slice(s, a, b) == SubSeq(s, a + 1, b)

\* unicode.IsSpace restricted to ASCII.
IsSpace(ch) == ch \in {" ", "\t", "\n", "\r", "\f"}

UpperCase == <<"A", "B", "C", "D", "E", "F", "G", "H", "I", "J", "K", "L", "M",
               "N", "O", "P", "Q", "R", "S", "T", "U", "V", "W", "X", "Y", "Z">>

LowerCase == <<"a", "b", "c", "d", "e", "f", "g", "h", "i", "j", "k", "l", "m",
               "n", "o", "p", "q", "r", "s", "t", "u", "v", "w", "x", "y", "z">>

\* unicode.ToLower restricted to ASCII.
ToLower(ch) ==
    IF \E k \in DOMAIN UpperCase : UpperCase[k] = ch
    THEN LowerCase[CHOOSE k \in DOMAIN UpperCase : UpperCase[k] = ch]
    ELSE ch

\* A faulty variant of EqualFold: the letter case is compared too.
EqualFoldExact(s, t) == s = t

\* strings.EqualFold restricted to ASCII.
EqualFold(s, t) ==
    /\ Len(s) = Len(t)
    /\ \A k \in 1..Len(s) : ToLower(s[k]) = ToLower(t[k])

\* strings.IndexAny(s[from:], chars) + from, or -1 (strings.IndexByte for one char).
IndexAny(s, from, chars) ==
    LET hits == {i \in from..(Len(s) - 1) : At(s, i) \in chars}
    IN  IF hits = {} THEN -1
        ELSE CHOOSE i \in hits : \A j \in hits : i <= j

\* strings.ContainsAny.
ContainsAny(s, chars) == \E k \in 1..Len(s) : s[k] \in chars

\* strings.TrimSpace(s) == "".
IsBlank(s) == \A k \in 1..Len(s) : IsSpace(s[k])

\* The "skip prefix spaces" loops of Tokenize: the first offset at or after
\* offset that holds no whitespace, or len(s).
\* A faulty variant of SkipSpaces: nothing is skipped.
SkipSpacesNone(s, offset) == offset

RECURSIVE SkipSpaces(_, _)
SkipSpaces(s, offset) ==
    IF offset < Len(s) /\ IsSpace(At(s, offset))
    THEN SkipSpaces(s, offset + 1)
    ELSE offset

\* A faulty variant of TrimSuffixSpaces: the suffix spaces are not ignored.
TrimSuffixSpacesSkipped(s, lo, indexEnd) == indexEnd

\* The "ignore suffix spaces" loops of Tokenize:
\*   for indexEnd >= 0 { l, size := DecodeLastRuneInString(s[lo:indexEnd]); ... }
\* An empty slice decodes to RuneError, which is no whitespace.
RECURSIVE TrimSuffixSpaces(_, _, _)
TrimSuffixSpaces(s, lo, indexEnd) ==
    IF indexEnd >= 0 /\ lo < indexEnd /\ IsSpace(At(s, indexEnd - 1))
    THEN TrimSuffixSpaces(s, lo, indexEnd - 1)
    ELSE indexEnd

(***************************************************************************)
(* Token types and errors.                                                 *)
(***************************************************************************)
TokenTypeContext == "Context"
TokenTypeStringLiteral == "StringLiteral"
TokenTypeStringPlaceholder == "StringPlaceholder"
TokenTypeNumber == "Number"
TokenTypeCardinalPluralStart == "CardinalPluralStart"
TokenTypeCardinalPluralEnd == "CardinalPluralEnd"
TokenTypeOrdinalPlural == "OrdinalPlural"
TokenTypeGenderPronoun == "GenderPronoun"
TokenTypeTimeShort == "TimeShort"
TokenTypeTimeShortSeconds == "TimeShortSeconds"
TokenTypeTimeFullMonthAndDay == "TimeFullMonthAndDay"
TokenTypeTimeShortMonthAndDay == "TimeShortMonthAndDay"
TokenTypeTimeFullMonthAndYear == "TimeFullMonthAndYear"
TokenTypeTimeWeekday == "TimeWeekday"
TokenTypeTimeDateAndShort == "TimeDateAndShort"
TokenTypeTimeYear == "TimeYear"
TokenTypeTimeFull == "TimeFull"
TokenTypeCurrencyRounded == "CurrencyRounded"
TokenTypeCurrencyFull == "CurrencyFull"
TokenTypeCurrencyCodeRounded == "CurrencyCodeRounded"
TokenTypeCurrencyCodeFull == "CurrencyCodeFull"
\* The zero TokenType, returned by match for an unknown directive.
TokenTypeZero == "0"

\* Token{IndexStart, IndexEnd, Type}.
Token(start, end, type) == [IndexStart |-> start, IndexEnd |-> end, Type |-> type]

ErrTextEmpty == "ErrTextEmpty"
ErrUnexpClosure == "ErrUnexpClosure"
ErrUknownPlaceholder == "ErrUknownPlaceholder"
ErrStringPlaceholderEmpty == "ErrStringPlaceholderEmpty"
ErrCardinalPluralEmpty == "ErrCardinalPluralEmpty"
ErrDirectiveStartsCardinalPlural == "ErrDirectiveStartsCardinalPlural"
ErrStringPlaceholderInvSpace == "ErrStringPlaceholderInvSpace"
ErrStringPlaceholderIllegalChars == "ErrStringPlaceholderIllegalChars"
ErrUnclosedPlaceholder == "ErrUnclosedPlaceholder"
ErrNestedPluralization == "ErrNestedPluralization"
ErrContextUnclosed == "ErrContextUnclosed"
ErrContextEmpty == "ErrContextEmpty"
ErrContextInvalid == "ErrContextInvalid"
ErrConfMagicConstantNonUnique == "ErrConfMagicConstantNonUnique"
ErrConfMagicConstantInvalid == "ErrConfMagicConstantInvalid"
ErrConfMissingDefault == "ErrConfMissingDefault"
\* ErrParser.Err == nil.
ErrNil == "nil"
\* Not an error value: the run-time panic of a nil pointer dereference, after
\* which the call returns nothing.
Panic == "panic: nil pointer dereference"

\* ErrParser{Index, Err}; err(index, e).
ErrParser(index, e) == [Index |-> index, Err |-> e]

\* What Tokenize returns: (Tokens, ErrParser).  A nil slice is the empty sequence.
Return(toks, index, e) == [Tokens |-> toks, Err |-> ErrParser(index, e)]

(***************************************************************************)
(* Configuration.                                                          *)
(***************************************************************************)
\* A *Config is the name of what it points to; the nil pointer is "nil".
NilConfig == "nil"

defaultConfig ==
    [MagicConstants |->
        [Number |-> <<"3">>,
         CardinalPluralStart |-> <<"2">>,
         OrdinalPlural |-> [Constant |-> <<"4", "t", "h">>,
                            DefaultICUSuffix |-> <<"t", "h">>],
         GenderPronouns |-> << <<"t", "h", "e", "y">>,
                               <<"t", "h", "e", "m">>,
                               <<"t", "h", "e", "i", "r">>,
                               <<"t", "h", "e", "i", "r", "s">>,
                               <<"t", "h", "e", "m", "s", "e", "l", "f">> >>,
         TimeShort |-> <<"3", ":", "4", "5", "P", "M">>,
         TimeShortSeconds |-> <<"3", ":", "4", "5", ":", "3", "0", "P", "M">>,
         TimeFullMonthAndDay |-> <<"A", "p", "r", "i", "l", " ", "2">>,
         TimeShortMonthAndDay |-> <<"A", "p", "r", " ", "2">>,
         TimeFullMonthAndYear |-> <<"A", "p", "r", " ", "2", "0", "2", "5">>,
         TimeWeekday |-> <<"M", "o", "n", "d", "a", "y">>,
         TimeDateAndShort |-> <<"A", "p", "r", "i", "l", " ", "2", ",", " ",
                                "3", ":", "4", "5", "P", "M">>,
         TimeYear |-> <<"2", "0", "2", "5">>,
         TimeFull |-> <<"A", "p", "r", "i", "l", " ", "2", ",", " ",
                        "3", ":", "4", "5", ":", "3", "0", "P", "M">>,
         CurrencyRounded |-> <<"$", "1">>,
         CurrencyFull |-> <<"$", "1", ".", "2", "0">>,
         CurrencyCodeRounded |-> <<"U", "S", "D", " ", "1">>,
         CurrencyCodeFull |-> <<"U", "S", "D", " ", "1", ".", "2", "0">>]]

\* DefaultConfig() returns a pointer to a deep copy of defaultConfig.
DefaultConfig == "DefaultConfig()"

\* The package variable defaultConfig as a pointer.
DefaultConfigVar == "defaultConfig"

\* A faulty variant of validateMagicPlaceholder: a quote is not looked for.
validateMagicPlaceholderQuoted(s) ==
    IF s = <<>> THEN ErrConfMagicConstantInvalid
    ELSE IF ContainsAny(s, {"{", "}"}) THEN ErrConfMagicConstantInvalid
    ELSE IF IsSpace(s[1]) THEN ErrConfMagicConstantInvalid
    ELSE IF IsSpace(s[Len(s)]) THEN ErrConfMagicConstantInvalid
    ELSE ErrNil

\* validateMagicPlaceholder(s): the error, or nil.
validateMagicPlaceholder(s) ==
    IF s = <<>> THEN ErrConfMagicConstantInvalid
    ELSE IF ContainsAny(s, {"\"", "{", "}"}) THEN ErrConfMagicConstantInvalid
    ELSE IF IsSpace(s[1]) THEN ErrConfMagicConstantInvalid
    ELSE IF IsSpace(s[Len(s)]) THEN ErrConfMagicConstantInvalid
    ELSE ErrNil

\* The closure check of validateCustomMagicConstants applied to the values
\* list[k], list[k+1], ... in turn, byStr being the set of the values seen:
\* the first error and the final byStr.
RECURSIVE CheckEach(_, _, _)
CheckEach(list, k, byStr) ==
    IF k > Len(list) THEN [err |-> ErrNil, byStr |-> byStr]
    ELSE IF validateMagicPlaceholder(list[k]) # ErrNil
    THEN [err |-> validateMagicPlaceholder(list[k]), byStr |-> byStr]
    ELSE IF list[k] \in byStr
    THEN [err |-> ErrConfMagicConstantNonUnique, byStr |-> byStr]
    ELSE CheckEach(list, k + 1, byStr \cup {list[k]})

\* The array of constants that validateCustomMagicConstants ranges over first.
ConstantList(m) ==
    << m.Number, m.CardinalPluralStart, m.OrdinalPlural.Constant, m.TimeShort,
       m.TimeShortSeconds, m.TimeFullMonthAndDay, m.TimeShortMonthAndDay,
       m.TimeFullMonthAndYear, m.TimeWeekday, m.TimeDateAndShort, m.TimeYear,
       m.TimeFull, m.CurrencyRounded, m.CurrencyFull, m.CurrencyCodeRounded,
       m.CurrencyCodeFull >>

\* validateCustomMagicConstants(m): the error, or nil.
validateCustomMagicConstants(m) ==
    LET constants == CheckEach(ConstantList(m), 1, {})
    IN  IF constants.err # ErrNil THEN constants.err
        ELSE IF m.OrdinalPlural.DefaultICUSuffix = <<>> THEN ErrConfMissingDefault
        ELSE IF Len(m.GenderPronouns) = 0 THEN ErrConfMagicConstantInvalid
        ELSE CheckEach(m.GenderPronouns, 1, constants.byStr).err

\* Config.Validate().
Validate(c) == validateCustomMagicConstants(c.MagicConstants)

\* A configuration made as the callers make it: a copy of the default
\* configuration (DefaultConfig()) with the fields of set assigned.
Custom(set) ==
    [MagicConstants |->
        [defaultConfig.MagicConstants EXCEPT
            !.Number = set.Number,
            !.OrdinalPlural = [Constant |-> set.OrdinalPluralConstant,
                               DefaultICUSuffix |-> set.DefaultICUSuffix],
            !.CurrencyCodeFull = set.CurrencyCodeFull,
            !.GenderPronouns = set.GenderPronouns]]

\* The assignments that leave the copy as it is.
Unchanged ==
    [Number |-> defaultConfig.MagicConstants.Number,
     OrdinalPluralConstant |-> defaultConfig.MagicConstants.OrdinalPlural.Constant,
     DefaultICUSuffix |-> defaultConfig.MagicConstants.OrdinalPlural.DefaultICUSuffix,
     CurrencyCodeFull |-> defaultConfig.MagicConstants.CurrencyCodeFull,
     GenderPronouns |-> defaultConfig.MagicConstants.GenderPronouns]

\* The configurations that callers make and hand to NewParser, each under the
\* name of its pointer: the one of TestParseCustomPlaceholders, two that
\* Validate accepts (a constant that differs from a pronoun in letter case
\* only, a constant that begins with the plural opener and a space), and
\* three that were never validated.
CustomConfigs ==
    ("&conf43" :> [Unchanged EXCEPT !.Number = <<"4", "3">>])
    @@ ("&confUpper" :> [Unchanged EXCEPT !.Number = <<"T", "H", "E", "Y">>])
    @@ ("&confPrefix" :> [Unchanged EXCEPT !.Number = <<"2", " ", "x">>])
    @@ ("&confEmpty" :> [Unchanged EXCEPT !.Number = <<>>])
    @@ ("&confNoPronouns" :> [Unchanged EXCEPT !.GenderPronouns = <<>>])
    @@ ("&confBlankPronoun" :> [Unchanged EXCEPT !.GenderPronouns = << <<>> >>])

\* *c for a pointer c that is not nil.
Deref(c) ==
    IF c \in DOMAIN CustomConfigs THEN Custom(CustomConfigs[c]) ELSE defaultConfig

(***************************************************************************)
(* The tokenizer.                                                          *)
(***************************************************************************)
\* isEscaped expects i to point to index -1 relative to the subject byte:
\* it counts the reverse solidi that end at i.
RECURSIVE CountRevSol(_, _)
CountRevSol(s, i) ==
    IF i >= 0 /\ At(s, i) = "\\" THEN 1 + CountRevSol(s, i - 1) ELSE 0

isEscaped(s, i) == CountRevSol(s, i) % 2 # 0

\* getPrefixEqualFold: the prefix of s that equals prefix up to letter case,
\* or "" if there is none.
RECURSIVE PrefixEqualFoldFrom(_, _, _)
PrefixEqualFoldFrom(s, prefix, i) ==
    IF i < Len(s) /\ i < Len(prefix)
    THEN IF ToLower(At(s, i)) # ToLower(At(prefix, i))
         THEN <<>>
         ELSE PrefixEqualFoldFrom(s, prefix, i + 1)
    ELSE IF i = Len(prefix) THEN Slice(s, 0, i) ELSE <<>>

getPrefixEqualFold(s, prefix) == PrefixEqualFoldFrom(s, prefix, 0)

\* The loop of match over c.MagicConstants.GenderPronouns: the index of the
\* first pronoun that equals s up to letter case, or 0 if there is none.
RECURSIVE MatchGenderPronoun(_, _, _)
MatchGenderPronoun(s, pronouns, k) ==
    IF k > Len(pronouns) THEN 0
    ELSE IF EqualFold(s, pronouns[k]) THEN k
    ELSE MatchGenderPronoun(s, pronouns, k + 1)

Matched(type, value) == [tokenType |-> type, value |-> value, panics |-> FALSE]

\* The comparisons of match with the magic constants m of the configuration.
matchConstants(s, m) ==
    LET p == getPrefixEqualFold(s, m.CardinalPluralStart)
    IN   IF EqualFold(s, m.Number) THEN Matched(TokenTypeNumber, m.Number)
         ELSE IF EqualFold(s, m.OrdinalPlural.Constant)
         THEN Matched(TokenTypeOrdinalPlural, m.OrdinalPlural.Constant)
         ELSE IF EqualFold(s, m.TimeShort)
         THEN Matched(TokenTypeTimeShort, m.TimeShort)
         ELSE IF EqualFold(s, m.TimeShortSeconds)
         THEN Matched(TokenTypeTimeShortSeconds, m.TimeShortSeconds)
         ELSE IF EqualFold(s, m.TimeFullMonthAndDay)
         THEN Matched(TokenTypeTimeFullMonthAndDay, m.TimeFullMonthAndDay)
         ELSE IF EqualFold(s, m.TimeShortMonthAndDay)
         THEN Matched(TokenTypeTimeShortMonthAndDay, m.TimeShortMonthAndDay)
         ELSE IF EqualFold(s, m.TimeFullMonthAndYear)
         THEN Matched(TokenTypeTimeFullMonthAndYear, m.TimeFullMonthAndYear)
         ELSE IF EqualFold(s, m.TimeWeekday)
         THEN Matched(TokenTypeTimeWeekday, m.TimeWeekday)
         ELSE IF EqualFold(s, m.TimeDateAndShort)
         THEN Matched(TokenTypeTimeDateAndShort, m.TimeDateAndShort)
         ELSE IF EqualFold(s, m.TimeYear)
         THEN Matched(TokenTypeTimeYear, m.TimeYear)
         ELSE IF EqualFold(s, m.TimeFull)
         THEN Matched(TokenTypeTimeFull, m.TimeFull)
         ELSE IF EqualFold(s, m.CurrencyRounded)
         THEN Matched(TokenTypeCurrencyRounded, m.CurrencyRounded)
         ELSE IF EqualFold(s, m.CurrencyFull)
         THEN Matched(TokenTypeCurrencyFull, m.CurrencyFull)
         ELSE IF EqualFold(s, m.CurrencyCodeRounded)
         THEN Matched(TokenTypeCurrencyCodeRounded, m.CurrencyCodeRounded)
         ELSE IF EqualFold(s, m.CurrencyCodeFull)
         THEN Matched(TokenTypeCurrencyCodeFull, m.CurrencyCodeFull)
         ELSE IF MatchGenderPronoun(s, m.GenderPronouns, 1) # 0
         THEN Matched(TokenTypeGenderPronoun,
                      m.GenderPronouns[MatchGenderPronoun(s, m.GenderPronouns, 1)])
         ELSE IF p # <<>>
         THEN IF Len(p) < Len(s) /\ IsSpace(At(s, Len(p)))
              THEN Matched(TokenTypeCardinalPluralStart, p)
              ELSE Matched(TokenTypeZero, <<>>)
         ELSE Matched(TokenTypeZero, <<>>)

\* match(s, c): the token type of the directive body s and the matched
\* constant.  A quoted body is answered before c is read; every other body
\* reads c.MagicConstants, which panics when c is nil.
match(s, c) ==
    IF s # <<>> /\ s[1] = "\"" THEN Matched(TokenTypeStringPlaceholder, s)
    ELSE IF c = NilConfig
    THEN [tokenType |-> TokenTypeZero, value |-> <<>>, panics |-> TRUE]
    ELSE matchConstants(s, Deref(c).MagicConstants)

\* A faulty variant of validateStringPlaceholder: whitespace at the end of the
\* text is not looked for.
validateStringPlaceholderLeft(s) ==
    IF s[Len(s)] # "\"" \/ Len(s) < 2
    THEN ErrParser(Len(s) - 1, ErrStringPlaceholderIllegalChars)
    ELSE LET in == Slice(s, 1, Len(s) - 1)
         IN  IF in = <<>> THEN ErrParser(0, ErrStringPlaceholderEmpty)
             ELSE IF IsSpace(in[1]) THEN ErrParser(0, ErrStringPlaceholderInvSpace)
             ELSE IF IndexAny(in, 0, {"\\", "{", "}", "\""}) # -1
             THEN ErrParser(IndexAny(in, 0, {"\\", "{", "}", "\""}),
                            ErrStringPlaceholderIllegalChars)
             ELSE ErrParser(0, ErrNil)

\* validateStringPlaceholder(s), s being a directive body that starts with '"':
\* the ErrParser, its Index relative to the text between the quotes.
validateStringPlaceholder(s) ==
    IF s[Len(s)] # "\"" \/ Len(s) < 2
    THEN ErrParser(Len(s) - 1, ErrStringPlaceholderIllegalChars)
    ELSE LET in == Slice(s, 1, Len(s) - 1)
         IN  IF in = <<>> THEN ErrParser(0, ErrStringPlaceholderEmpty)
             ELSE IF IsSpace(in[1]) THEN ErrParser(0, ErrStringPlaceholderInvSpace)
             ELSE IF IsSpace(in[Len(in)])
             THEN ErrParser(Len(in) - 1, ErrStringPlaceholderInvSpace)
             ELSE IF IndexAny(in, 0, {"\\", "{", "}", "\""}) # -1
             THEN ErrParser(IndexAny(in, 0, {"\\", "{", "}", "\""}),
                            ErrStringPlaceholderIllegalChars)
             ELSE ErrParser(0, ErrNil)

RECURSIVE ReadLiteral(_, _, _, _, _, _)
RECURSIVE ReadDirective(_, _, _, _, _)
RECURSIVE AppendDirective(_, _, _, _, _, _, _)

\* A faulty variant of ReadLiteral: a plural block without a token is closed
\* like any other.
ReadLiteralEmptyBlock(s, c, buffer, offset, literalOffset, inPluralDirective) ==
    LET iDir == IndexAny(s, offset, {"{", "}"})
        withLiteral == IF literalOffset # iDir
                       THEN Append(buffer,
                                   Token(literalOffset, iDir, TokenTypeStringLiteral))
                       ELSE buffer
    IN
    IF iDir = -1
    THEN \* There is no next directive: end of TIK.
         IF literalOffset # Len(s)
         THEN Return(Append(buffer,
                            Token(literalOffset, TrimSuffixSpaces(s, 0, Len(s)),
                                  TokenTypeStringLiteral)),
                     0, ErrNil)
         ELSE Return(buffer, 0, ErrNil)
    ELSE IF At(s, iDir) = "}"
    THEN IF ~inPluralDirective
         THEN IF isEscaped(s, iDir - 1)
              THEN \* Escaped, continue reading literal.
                   ReadLiteral(s, c, buffer, iDir + 1, literalOffset,
                               inPluralDirective)
              ELSE Return(<<>>, iDir, ErrUnexpClosure)
         ELSE ReadLiteral(s, c,
                          Append(withLiteral,
                                 Token(iDir, iDir + 1, TokenTypeCardinalPluralEnd)),
                          iDir + 1, iDir + 1, FALSE)
    ELSE IF isEscaped(s, iDir - 1)
    THEN \* Escaped directive opener, continue reading string literal.
         ReadLiteral(s, c, buffer, iDir + 1, literalOffset, inPluralDirective)
    ELSE ReadDirective(s, c, withLiteral, iDir, inPluralDirective)

\* One iteration of the inner loop of Tokenize ("Read string literal before
\* the next directive"), with the state of the loop as its parameters.
ReadLiteral(s, c, buffer, offset, literalOffset, inPluralDirective) ==
    LET iDir == IndexAny(s, offset, {"{", "}"})
        withLiteral == IF literalOffset # iDir
                       THEN Append(buffer,
                                   Token(literalOffset, iDir, TokenTypeStringLiteral))
                       ELSE buffer
    IN
    IF iDir = -1
    THEN \* There is no next directive: end of TIK.
         IF literalOffset # Len(s)
         THEN Return(Append(buffer,
                            Token(literalOffset, TrimSuffixSpaces(s, 0, Len(s)),
                                  TokenTypeStringLiteral)),
                     0, ErrNil)
         ELSE Return(buffer, 0, ErrNil)
    ELSE IF At(s, iDir) = "}"
    THEN IF ~inPluralDirective
         THEN IF isEscaped(s, iDir - 1)
              THEN \* Escaped, continue reading literal.
                   ReadLiteral(s, c, buffer, iDir + 1, literalOffset,
                               inPluralDirective)
              ELSE Return(<<>>, iDir, ErrUnexpClosure)
         ELSE IF withLiteral[Len(withLiteral)].Type = TokenTypeCardinalPluralStart
              THEN Return(<<>>, withLiteral[Len(withLiteral)].IndexStart,
                          ErrCardinalPluralEmpty)
              ELSE \* Restart literal parsing cycle.
                   ReadLiteral(s, c,
                               Append(withLiteral,
                                      Token(iDir, iDir + 1, TokenTypeCardinalPluralEnd)),
                               iDir + 1, iDir + 1, FALSE)
    ELSE IF isEscaped(s, iDir - 1)
    THEN \* Escaped directive opener, continue reading string literal.
         ReadLiteral(s, c, buffer, iDir + 1, literalOffset, inPluralDirective)
    ELSE ReadDirective(s, c, withLiteral, iDir, inPluralDirective)

\* The rest of one iteration of the outer loop of Tokenize: the directive
\* opened by the '{' at iDir.
ReadDirective(s, c, buffer, iDir, inPluralDirective) ==
    LET close == IndexAny(s, iDir + 1, {"}"})
        iDirClose == close - 1
        directive == Slice(s, iDir + 1, iDirClose + 1)
    IN
    IF close = -1 THEN Return(<<>>, iDir, ErrUnclosedPlaceholder)
    ELSE AppendDirective(s, c, buffer, iDir, iDirClose, inPluralDirective,
                         match(directive, c))

\* A faulty variant of AppendDirective: a plural opener is accepted inside an
\* open plural block.
AppendDirectiveNesting(s, c, buffer, iDir, iDirClose, inPluralDirective, m) ==
    LET tp == m.tokenType
        value == m.value
        verr == validateStringPlaceholder(value)
    IN
    IF m.panics THEN Return(<<>>, 0, Panic)
    ELSE IF tp = TokenTypeStringPlaceholder /\ verr.Err # ErrNil
    THEN Return(<<>>, verr.Index + iDir + 2, verr.Err)
    ELSE IF tp = TokenTypeCardinalPluralStart
    THEN ReadLiteral(s, c,
                     Append(buffer,
                            Token(iDir, iDir + Len(value) + 2,
                                  TokenTypeCardinalPluralStart)),
                     iDir + Len(value) + 2, iDir + Len(value) + 2, TRUE)
    ELSE IF tp = TokenTypeZero
    THEN Return(<<>>, iDir, ErrUknownPlaceholder)
    ELSE IF Len(buffer) > 0 /\ buffer[Len(buffer)].Type = TokenTypeCardinalPluralStart
    THEN Return(<<>>, iDir, ErrDirectiveStartsCardinalPlural)
    ELSE ReadLiteral(s, c,
                     Append(buffer, Token(iDir, iDirClose + 2, tp)),
                     iDirClose + 2, iDirClose + 2, inPluralDirective)

\* A faulty variant of AppendDirective: every directive inside a plural block
\* is refused, not only the one that starts the block.
AppendDirectiveStrict(s, c, buffer, iDir, iDirClose, inPluralDirective, m) ==
    LET tp == m.tokenType
        value == m.value
        verr == validateStringPlaceholder(value)
    IN
    IF m.panics THEN Return(<<>>, 0, Panic)
    ELSE IF tp = TokenTypeStringPlaceholder /\ verr.Err # ErrNil
    THEN Return(<<>>, verr.Index + iDir + 2, verr.Err)
    ELSE IF tp = TokenTypeCardinalPluralStart
    THEN IF inPluralDirective
         THEN Return(<<>>, iDir, ErrNestedPluralization)
         ELSE ReadLiteral(s, c,
                          Append(buffer,
                                 Token(iDir, iDir + Len(value) + 2,
                                       TokenTypeCardinalPluralStart)),
                          iDir + Len(value) + 2, iDir + Len(value) + 2, TRUE)
    ELSE IF tp = TokenTypeZero
    THEN Return(<<>>, iDir, ErrUknownPlaceholder)
    ELSE IF inPluralDirective
    THEN Return(<<>>, iDir, ErrDirectiveStartsCardinalPlural)
    ELSE ReadLiteral(s, c,
                     Append(buffer, Token(iDir, iDirClose + 2, tp)),
                     iDirClose + 2, iDirClose + 2, inPluralDirective)

\* What Tokenize does with m, the result of match for the directive that
\* spans from the '{' at iDir to the '}' at iDirClose + 1.
AppendDirective(s, c, buffer, iDir, iDirClose, inPluralDirective, m) ==
    LET tp == m.tokenType
        value == m.value
        verr == validateStringPlaceholder(value)
    IN
    IF m.panics THEN Return(<<>>, 0, Panic)
    ELSE IF tp = TokenTypeStringPlaceholder /\ verr.Err # ErrNil
    THEN \* +2 for the two '"'.
         Return(<<>>, verr.Index + iDir + 2, verr.Err)
    ELSE IF tp = TokenTypeCardinalPluralStart
    THEN IF inPluralDirective
         THEN Return(<<>>, iDir, ErrNestedPluralization)
         ELSE \* Skip only the plural block start.
              ReadLiteral(s, c,
                          Append(buffer,
                                 Token(iDir, iDir + Len(value) + 2,
                                       TokenTypeCardinalPluralStart)),
                          iDir + Len(value) + 2, iDir + Len(value) + 2, TRUE)
    ELSE IF tp = TokenTypeZero
    THEN Return(<<>>, iDir, ErrUknownPlaceholder)
    ELSE IF Len(buffer) > 0 /\ buffer[Len(buffer)].Type = TokenTypeCardinalPluralStart
    THEN Return(<<>>, iDir, ErrDirectiveStartsCardinalPlural)
    ELSE ReadLiteral(s, c,
                     Append(buffer, Token(iDir, iDirClose + 2, tp)),
                     iDirClose + 2, iDirClose + 2, inPluralDirective)

RECURSIVE Scan(_, _, _, _, _, _, _)

\* A faulty variant of Scan: after a plural opener the loop reads on from
\* the opener, not from the byte after it.
ScanOpenerAgain(s, c, buffer, offset, literalOffset, inPluralDirective, fuel) ==
    LET iDir == IndexAny(s, offset, {"{", "}"})
        withLiteral == IF literalOffset # iDir
                       THEN Append(buffer,
                                   Token(literalOffset, iDir, TokenTypeStringLiteral))
                       ELSE buffer
        close == IndexAny(s, iDir + 1, {"}"})
        iDirClose == close - 1
        m == match(Slice(s, iDir + 1, iDirClose + 1), c)
    IN
    IF fuel = 0 THEN <<>>
    ELSE <<[offset |-> offset, iDir |-> iDir]>> \o
         (IF iDir = -1 THEN <<>>
          ELSE IF At(s, iDir) = "}"
          THEN IF ~inPluralDirective
               THEN IF isEscaped(s, iDir - 1)
                    THEN Scan(s, c, buffer, iDir + 1, literalOffset,
                              inPluralDirective, fuel - 1)
                    ELSE <<>>
               ELSE IF withLiteral[Len(withLiteral)].Type = TokenTypeCardinalPluralStart
                    THEN <<>>
                    ELSE Scan(s, c,
                              Append(withLiteral,
                                     Token(iDir, iDir + 1, TokenTypeCardinalPluralEnd)),
                              iDir + 1, iDir + 1, FALSE, fuel - 1)
          ELSE IF isEscaped(s, iDir - 1)
          THEN Scan(s, c, buffer, iDir + 1, literalOffset, inPluralDirective, fuel - 1)
          ELSE IF close = -1 THEN <<>>
          ELSE IF m.panics THEN <<>>
          ELSE IF m.tokenType = TokenTypeStringPlaceholder
                  /\ validateStringPlaceholder(m.value).Err # ErrNil
          THEN <<>>
          ELSE IF m.tokenType = TokenTypeCardinalPluralStart
          THEN IF inPluralDirective THEN <<>>
               ELSE Scan(s, c,
                         Append(withLiteral,
                                Token(iDir, iDir + Len(m.value) + 2,
                                      TokenTypeCardinalPluralStart)),
                         iDir, iDir, TRUE,
                         fuel - 1)
          ELSE IF m.tokenType = TokenTypeZero THEN <<>>
          ELSE IF Len(withLiteral) > 0
                  /\ withLiteral[Len(withLiteral)].Type = TokenTypeCardinalPluralStart
          THEN <<>>
          ELSE Scan(s, c, Append(withLiteral, Token(iDir, iDirClose + 2, m.tokenType)),
                    iDirClose + 2, iDirClose + 2, inPluralDirective, fuel - 1))

\* The loops of Tokenize seen from their read offset: what s[offset:] and
\* s[iDir] are read with at the head of each iteration of the inner loop
\* ("Read string literal before the next directive"), for at most fuel
\* iterations.  buffer holds the tokens appended since the loops began.
Scan(s, c, buffer, offset, literalOffset, inPluralDirective, fuel) ==
    LET iDir == IndexAny(s, offset, {"{", "}"})
        withLiteral == IF literalOffset # iDir
                       THEN Append(buffer,
                                   Token(literalOffset, iDir, TokenTypeStringLiteral))
                       ELSE buffer
        close == IndexAny(s, iDir + 1, {"}"})
        iDirClose == close - 1
        m == match(Slice(s, iDir + 1, iDirClose + 1), c)
    IN
    IF fuel = 0 THEN <<>>
    ELSE <<[offset |-> offset, iDir |-> iDir]>> \o
         (IF iDir = -1 THEN <<>>
          ELSE IF At(s, iDir) = "}"
          THEN IF ~inPluralDirective
               THEN IF isEscaped(s, iDir - 1)
                    THEN Scan(s, c, buffer, iDir + 1, literalOffset,
                              inPluralDirective, fuel - 1)
                    ELSE <<>>
               ELSE IF withLiteral[Len(withLiteral)].Type = TokenTypeCardinalPluralStart
                    THEN <<>>
                    ELSE Scan(s, c,
                              Append(withLiteral,
                                     Token(iDir, iDir + 1, TokenTypeCardinalPluralEnd)),
                              iDir + 1, iDir + 1, FALSE, fuel - 1)
          ELSE IF isEscaped(s, iDir - 1)
          THEN Scan(s, c, buffer, iDir + 1, literalOffset, inPluralDirective, fuel - 1)
          ELSE IF close = -1 THEN <<>>
          ELSE IF m.panics THEN <<>>
          ELSE IF m.tokenType = TokenTypeStringPlaceholder
                  /\ validateStringPlaceholder(m.value).Err # ErrNil
          THEN <<>>
          ELSE IF m.tokenType = TokenTypeCardinalPluralStart
          THEN IF inPluralDirective THEN <<>>
               ELSE Scan(s, c,
                         Append(withLiteral,
                                Token(iDir, iDir + Len(m.value) + 2,
                                      TokenTypeCardinalPluralStart)),
                         iDir + Len(m.value) + 2, iDir + Len(m.value) + 2, TRUE,
                         fuel - 1)
          ELSE IF m.tokenType = TokenTypeZero THEN <<>>
          ELSE IF Len(withLiteral) > 0
                  /\ withLiteral[Len(withLiteral)].Type = TokenTypeCardinalPluralStart
          THEN <<>>
          ELSE Scan(s, c, Append(withLiteral, Token(iDir, iDirClose + 2, m.tokenType)),
                    iDirClose + 2, iDirClose + 2, inPluralDirective, fuel - 1))

\* The iterations of the loops of Tokenize(buffer, s, c), none when Tokenize
\* returns before it reaches them.
Scanned(s, c) ==
    LET offset == SkipSpaces(s, 0)
        contextEnd == IndexAny(s, offset + 1, {"]"})
        textStart == IF offset < Len(s) /\ At(s, offset) = "["
                     THEN SkipSpaces(s, contextEnd + 1) ELSE offset
    IN  IF offset >= Len(s) THEN <<>>
        ELSE IF At(s, offset) = "["
                /\ (\/ contextEnd = -1
                    \/ IsBlank(Slice(s, offset + 1, contextEnd))
                    \/ ContainsAny(Slice(s, offset + 1, contextEnd),
                                   {"{", "}", "[", "]", "\\"})
                    \/ textStart >= Len(s))
        THEN <<>>
        ELSE IF IndexAny(s, textStart, {"{"}) = -1
                /\ IndexAny(s, textStart, {"}"}) = -1
        THEN <<>>
        ELSE Scan(s, c, <<>>, textStart, textStart, FALSE, Len(s) + 2)

\* Tokenize from the fast path on: offset is the start of the text body.
TokenizeText(buffer, s, c, offset) ==
    IF IndexAny(s, offset, {"{"}) = -1 /\ IndexAny(s, offset, {"}"}) = -1
    THEN \* Fast path for simple inputs without {}.
         Return(Append(buffer,
                       Token(offset, TrimSuffixSpaces(s, offset, Len(s)),
                             TokenTypeStringLiteral)),
                0, ErrNil)
    ELSE ReadLiteral(s, c, buffer, offset, offset, FALSE)

\* A faulty variant of TokenizeContext: a blank context is let through.
TokenizeContextBlank(buffer, s, c, start) ==
    LET offset == start + 1
        contextEnd == IndexAny(s, offset, {"]"})
        context == Slice(s, offset, contextEnd)
        withContext == Append(buffer, Token(start, contextEnd + 1, TokenTypeContext))
        textStart == SkipSpaces(s, contextEnd + 1)
    IN
    IF contextEnd = -1 THEN Return(buffer, 0, ErrContextUnclosed)
    ELSE IF ContainsAny(context, {"{", "}", "[", "]", "\\"})
    THEN Return(buffer, 0, ErrContextInvalid)
    ELSE IF textStart >= Len(s) THEN Return(withContext, textStart, ErrTextEmpty)
    ELSE TokenizeText(withContext, s, c, textStart)

\* A faulty variant of TokenizeContext: the text after the context is not
\* looked at before it is tokenized.
TokenizeContextBodiless(buffer, s, c, start) ==
    LET offset == start + 1
        contextEnd == IndexAny(s, offset, {"]"})
        context == Slice(s, offset, contextEnd)
        withContext == Append(buffer, Token(start, contextEnd + 1, TokenTypeContext))
        textStart == SkipSpaces(s, contextEnd + 1)
    IN
    IF contextEnd = -1 THEN Return(buffer, 0, ErrContextUnclosed)
    ELSE IF IsBlank(context) THEN Return(buffer, 0, ErrContextEmpty)
    ELSE IF ContainsAny(context, {"{", "}", "[", "]", "\\"})
    THEN Return(buffer, 0, ErrContextInvalid)
    ELSE TokenizeText(withContext, s, c, textStart)

\* Tokenize from "TIK has context" on: s[start] is the '['.
TokenizeContext(buffer, s, c, start) ==
    LET offset == start + 1
        contextEnd == IndexAny(s, offset, {"]"})
        context == Slice(s, offset, contextEnd)
        withContext == Append(buffer, Token(start, contextEnd + 1, TokenTypeContext))
        textStart == SkipSpaces(s, contextEnd + 1)
    IN
    IF contextEnd = -1 THEN Return(buffer, 0, ErrContextUnclosed)
    ELSE IF IsBlank(context) THEN Return(buffer, 0, ErrContextEmpty)
    ELSE IF ContainsAny(context, {"{", "}", "[", "]", "\\"})
    THEN Return(buffer, 0, ErrContextInvalid)
    ELSE IF textStart >= Len(s) THEN Return(withContext, textStart, ErrTextEmpty)
    ELSE TokenizeText(withContext, s, c, textStart)

\* Tokenizer.Tokenize(buffer, s, c): appends all tokens from s to buffer and
\* returns the buffer, or an error.
Tokenize(buffer, s, c) ==
    LET offset == SkipSpaces(s, 0)
    IN  IF offset >= Len(s) THEN Return(<<>>, 0, ErrTextEmpty)
        ELSE IF At(s, offset) = "[" THEN TokenizeContext(buffer, s, c, offset)
        ELSE TokenizeText(buffer, s, c, offset)

\* Token.String(source): the text of the span with \\, \{ and \} unescaped
\* (replacerTokenStringify, applied from left to right).
RECURSIVE Stringify(_, _)
Stringify(s, k) ==
    IF k > Len(s) THEN <<>>
    ELSE IF s[k] = "\\" /\ k < Len(s) /\ s[k + 1] \in {"\\", "{", "}"}
    THEN <<s[k + 1]>> \o Stringify(s, k + 2)
    ELSE <<s[k]>> \o Stringify(s, k + 1)

TokenString(t, source) == Stringify(Slice(source, t.IndexStart, t.IndexEnd), 1)

(***************************************************************************)
(* The parser.                                                             *)
(***************************************************************************)
\* TIK{Raw, Tokens}; TIK{} is the zero TIK.
TIK(raw, tokens) == [Raw |-> raw, Tokens |-> tokens]

ZeroTIK == TIK(<<>>, <<>>)

\* A faulty variant of PlaceholdersFrom: the end of a plural block is yielded
\* like a placeholder.
RECURSIVE PlaceholdersFromWithEnd(_, _, _)
PlaceholdersFromWithEnd(tokens, k, i) ==
    IF k > Len(tokens) THEN <<>>
    ELSE IF tokens[k].Type \in {TokenTypeContext, TokenTypeStringLiteral}
    THEN PlaceholdersFromWithEnd(tokens, k + 1, i)
    ELSE <<[i |-> i, t |-> tokens[k]]>> \o PlaceholdersFromWithEnd(tokens, k + 1, i + 1)

\* The loop of TIK.Placeholders from token k on, i being its counter: the
\* pairs handed to yield when yield never stops the iteration.
RECURSIVE PlaceholdersFrom(_, _, _)
PlaceholdersFrom(tokens, k, i) ==
    IF k > Len(tokens) THEN <<>>
    ELSE IF tokens[k].Type \in {TokenTypeContext, TokenTypeStringLiteral,
                                TokenTypeCardinalPluralEnd}
    THEN PlaceholdersFrom(tokens, k + 1, i)
    ELSE <<[i |-> i, t |-> tokens[k]]>> \o PlaceholdersFrom(tokens, k + 1, i + 1)

\* TIK.Placeholders() ranged over to its end.
Placeholders(tk) == PlaceholdersFrom(tk.Tokens, 1, 0)

\* NewParser(conf): a nil conf is replaced by DefaultConfig().
NewParser(c) ==
    [tokBuf |-> <<>>, conf |-> IF c = NilConfig THEN DefaultConfig ELSE c]

\* A slice of tokens as a reference: the array that holds the tokens and the
\* length of the slice.
TokensIn(array, len) == [array |-> array, len |-> len]

NilTokens == TokensIn("nil", 0)

\* A faulty variant of MakeCopy: the slice of the parser's buffer is kept.
MakeCopyAliasing(tokens) == TokensIn("tokBuf", Len(tokens))

\* cp := make(Tokens, len(ref.Tokens)); copy(cp, ref.Tokens) in the callback
\* of Parse: cp is a slice of an array of its own.
MakeCopy(tokens) == TokensIn("cp", Len(tokens))

\* The errors with which Tokenize returns the buffer it has appended to; with
\* every other error it returns nil after appending to the buffer.
ReturnsBuffer(e) ==
    e \in {ErrNil, ErrTextEmpty, ErrContextUnclosed, ErrContextEmpty,
           ErrContextInvalid}

\* The array behind p.tokBuf[:0] after Tokenize appended tokens to it.
AppendedTo(array, tokens) ==
    tokens \o SubSeq(array, Len(tokens) + 1, Len(array))

\* A token that a failed Tokenize left in the array.
Leftover == Token(0, 0, TokenTypeZero)

\* The array with its first k cells overwritten by a failed Tokenize.
Overwritten(array, k) ==
    [i \in 1..Len(array) |-> IF i <= k THEN Leftover ELSE array[i]]

\* What the array behind the parser's buffer can hold after a ParseFn that
\* returned e and left tokens in p.tokBuf.
ArraysAfter(array, tokens, e) ==
    IF ReturnsBuffer(e) THEN {AppendedTo(array, tokens)}
    ELSE {Overwritten(array, k) : k \in 0..Len(array)}

\* A faulty variant of ResetBuffer: the tokens of the earlier call stay.
ResetBufferKept(tokBuf) == tokBuf

\* p.tokBuf[:0]: the buffer of the parser without its tokens.
ResetBuffer(tokBuf) == <<>>

\* A faulty variant of ParseFn: fn is called whatever Tokenize returned.
ParseFnAlways(parser, in) ==
    CHOOSE out \in {[tokBuf |-> r.Tokens,
                     err |-> r.Err,
                     called |-> TRUE,
                     ref |-> TIK(in, r.Tokens)] :
                        r \in {Tokenize(ResetBuffer(parser.tokBuf), in, parser.conf)}} : TRUE

\* Parser.ParseFn(input, fn): resets the buffer, tokenizes into it and calls
\* fn with a TIK over the buffer unless Tokenize failed.  called says whether
\* fn was invoked, ref is the TIK fn was given.
ParseFn(parser, in) ==
    CHOOSE out \in {[tokBuf |-> r.Tokens,
                     err |-> r.Err,
                     called |-> r.Err.Err = ErrNil,
                     ref |-> TIK(in, r.Tokens)] :
                        r \in {Tokenize(ResetBuffer(parser.tokBuf), in, parser.conf)}} : TRUE

\* Parser.Parse(input): ParseFn with a callback that copies the tokens.  cp is
\* the slice the returned TIK holds its tokens in.
Parse(parser, in) ==
    CHOOSE out \in {[tokBuf |-> r.tokBuf,
                     err |-> r.err,
                     tik |-> IF r.err.Err # ErrNil THEN ZeroTIK
                             ELSE TIK(in, r.ref.Tokens),
                     cp |-> IF r.err.Err # ErrNil THEN NilTokens
                            ELSE MakeCopy(r.ref.Tokens)] :
                        r \in {ParseFn(parser, in)}} : TRUE

(***************************************************************************)
(* The ICU translator.                                                     *)
(***************************************************************************)
\* ICUModifier{Gender, Plural}.
ICUModifier(gender, plural) == [Gender |-> gender, Plural |-> plural]

\* A map[int]ICUModifier: nil, or the function entries from its keys.
NilModifiers == [isNil |-> TRUE, entries |-> <<>>]

Modifiers(entries) == [isNil |-> FALSE, entries |-> entries]

Digits == <<"0", "1", "2", "3", "4", "5", "6", "7", "8", "9">>

\* strconv.Itoa for a natural number.
RECURSIVE Itoa(_)
Itoa(n) == IF n < 10 THEN <<Digits[n + 1]>>
           ELSE Itoa(n \div 10) \o <<Digits[(n % 10) + 1]>>

\* writePositionalPlaceholder(index, suffix): what it writes.
writePositionalPlaceholder(index, suffix) ==
    <<"v", "a", "r">> \o Itoa(index) \o suffix

SuffixGender == <<"_", "g", "e", "n", "d", "e", "r">>
SuffixPlural == <<"_", "p", "l", "u", "r", "a", "l">>
CommaSelect == <<",", " ", "s", "e", "l", "e", "c", "t", ",", " ">>
CommaPlural == <<",", " ", "p", "l", "u", "r", "a", "l", ",", " ">>
CommaSelectordinal == <<",", " ", "s", "e", "l", "e", "c", "t", "o", "r", "d",
                        "i", "n", "a", "l", ",", " ">>
OtherOpen == <<"o", "t", "h", "e", "r", " ", "{">>

\* A faulty variant of writeModifiers: the flags of the entry are applied
\* whatever the gender and plural arguments say, and the blocks are closed in
\* the same way.
writeModifiersOfAnyKind(pos, modifiers, gender, plural, content) ==
    IF modifiers.isNil THEN content
    ELSE IF pos \notin DOMAIN modifiers.entries THEN content
    ELSE LET m == modifiers.entries[pos]
         IN  IF ~m.Gender /\ ~m.Plural THEN content
             ELSE (IF m.Gender
                   THEN <<"{">> \o writePositionalPlaceholder(pos, SuffixGender)
                        \o CommaSelect \o OtherOpen
                   ELSE <<>>)
                  \o (IF m.Plural
                      THEN <<"{">> \o writePositionalPlaceholder(pos, SuffixPlural)
                           \o CommaPlural \o OtherOpen
                      ELSE <<>>)
                  \o content \o <<"}", "}">>

\* writeModifiers(pos, modifiers, gender, plural, writeContent): what it
\* writes, content being what writeContent writes.
writeModifiers(pos, modifiers, gender, plural, content) ==
    IF modifiers.isNil THEN content
    ELSE IF pos \notin DOMAIN modifiers.entries THEN content
    ELSE LET m == modifiers.entries[pos]
             applyGender == gender /\ m.Gender
             applyPlural == plural /\ m.Plural
         IN  IF ~applyGender /\ ~applyPlural THEN content
             ELSE IF applyGender
             THEN <<"{">> \o writePositionalPlaceholder(pos, SuffixGender)
                  \o CommaSelect \o OtherOpen
                  \o (IF applyPlural
                      THEN \* Apply both gender and pluralization.
                           <<"{">> \o writePositionalPlaceholder(pos, SuffixPlural)
                           \o CommaPlural \o OtherOpen
                           \o content \o <<"}", "}">>
                      ELSE content \o <<"}", "}">>)
             ELSE \* Apply only pluralization.
                  <<"{">> \o writePositionalPlaceholder(pos, SuffixPlural)
                  \o CommaPlural \o OtherOpen
                  \o content \o <<"}", "}">>

\* The token types of the first placeholder case of TIK2ICUBuf.
SimplePlaceholderTypes ==
    {TokenTypeStringPlaceholder, TokenTypeNumber, TokenTypeTimeShort,
     TokenTypeTimeShortSeconds, TokenTypeTimeFullMonthAndDay,
     TokenTypeTimeShortMonthAndDay, TokenTypeTimeFullMonthAndYear,
     TokenTypeTimeWeekday, TokenTypeTimeDateAndShort, TokenTypeTimeYear,
     TokenTypeTimeFull, TokenTypeCurrencyRounded, TokenTypeCurrencyFull,
     TokenTypeCurrencyCodeRounded, TokenTypeCurrencyCodeFull}

\* The token types that take a positional index in TIK2ICUBuf.
PositionalTypes ==
    SimplePlaceholderTypes
    \cup {TokenTypeOrdinalPlural, TokenTypeCardinalPluralStart, TokenTypeGenderPronoun}

\* One iteration of the loop of TIK2ICUBuf: what it writes for token, pos
\* being the value of positionalIndex when the iteration starts.
WriteToken(conf, token, raw, pos, modifiers) ==
    IF token.Type = TokenTypeStringLiteral THEN TokenString(token, raw)
    ELSE IF token.Type \in SimplePlaceholderTypes
    THEN writeModifiers(pos, modifiers, TRUE, TRUE,
                        <<"{">> \o writePositionalPlaceholder(pos, <<>>) \o <<"}">>)
    ELSE IF token.Type = TokenTypeOrdinalPlural
    THEN <<"{">> \o writePositionalPlaceholder(pos, <<>>)
         \o CommaSelectordinal \o OtherOpen \o <<"#">>
         \o Deref(conf).MagicConstants.OrdinalPlural.DefaultICUSuffix \o <<"}", "}">>
    ELSE IF token.Type = TokenTypeCardinalPluralStart
    THEN <<"{">> \o writePositionalPlaceholder(pos, <<>>)
         \o CommaPlural \o OtherOpen \o <<"#", " ">>
    ELSE IF token.Type = TokenTypeCardinalPluralEnd
    THEN <<"}", "}">>
    ELSE IF token.Type = TokenTypeGenderPronoun
    THEN LET pronoun == TokenString(token, raw)
         IN  writeModifiers(pos, modifiers, FALSE, TRUE,
                            <<"{">> \o writePositionalPlaceholder(pos, <<>>)
                            \o CommaSelect \o OtherOpen
                            \o Slice(pronoun, 1, Len(pronoun) - 1) \o <<"}", "}">>)
    ELSE <<>>

\* The loop of TIK2ICUBuf from token k on: the sequence of the strings its
\* iterations write.
RECURSIVE WriteTokens(_, _, _, _, _)
WriteTokens(conf, tk, k, positionalIndex, modifiers) ==
    IF k > Len(tk.Tokens) THEN <<>>
    ELSE <<WriteToken(conf, tk.Tokens[k], tk.Raw, positionalIndex, modifiers)>>
         \o WriteTokens(conf, tk, k + 1,
                        IF tk.Tokens[k].Type \in PositionalTypes
                        THEN positionalIndex + 1 ELSE positionalIndex,
                        modifiers)

RECURSIVE Concat(_)
Concat(strs) == IF strs = <<>> THEN <<>> ELSE Head(strs) \o Concat(Tail(strs))

\* ICUTranslator.TIK2ICU(tik, modifiers): the contents of the buffer i.b
\* after TIK2ICUBuf.
TIK2ICU(conf, tk, modifiers) == Concat(WriteTokens(conf, tk, 1, 0, modifiers))

\* NewICUTranslator(conf): a nil conf is replaced by defaultConfig.
NewICUTranslator(c) ==
    [b |-> <<>>, conf |-> IF c = NilConfig THEN DefaultConfigVar ELSE c]

(***************************************************************************)
(* Inputs.                                                                 *)
(***************************************************************************)
\* The fragments the inputs are made of: the characters that steer the
\* tokenizer, and whole directives of the default configuration.
Fragments ==
    { <<"{">>, <<"}">>, <<"\\">>, <<" ">>, <<"a">>, <<"[">>, <<"]">>, <<"\"">>,
      <<"3">>,
      <<"{", "3", "}">>,
      <<"{", "t", "h", "e", "y", "}">>,
      <<"{", "4", "t", "h", "}">>,
      <<"{", "\"", "a", "\"", "}">>,
      <<"{", "2", " ">> }

RECURSIVE Concatenations(_)
Concatenations(n) ==
    IF n = 0 THEN {<<>>}
    ELSE LET shorter == Concatenations(n - 1)
         IN  shorter \cup {s \o f : s \in shorter, f \in Fragments}

Inputs == Concatenations(MaxPieces)

\* The concatenations of at most n fragments of the set frags.
RECURSIVE ConcatenationsOf(_, _)
ConcatenationsOf(frags, n) ==
    IF n = 0 THEN {<<>>}
    ELSE {s \o f : s \in ConcatenationsOf(frags, n - 1), f \in frags \cup {<<>>}}

\* The inputs about plural blocks: longer strings of fewer fragments.
PluralFragments ==
    { <<"{", "2", " ">>, <<"}">>, <<"a">>, <<" ">>, <<"\\">>, <<"{", "3", "}">> }

PluralInputs == ConcatenationsOf(PluralFragments, MaxPieces + 2)

\* The values assigned to the constants of a configuration under validation.
ConstantValues ==
    { <<>>, <<"5">>, <<"3">>, <<"{", "3", "}">>, <<"\"", "3", "\"">>,
      <<" ", "x">>, <<"x", " ">>, <<"t", "h", "e", "y">>, <<"4", "t", "h">> }

\* The gender pronoun lists assigned to a configuration under validation.
PronounLists ==
    { <<>>, << <<>> >>, << <<"h", "e">>, <<"h", "e">> >>, << <<"h", "e">> >>,
      << <<"h", "e">>, <<" ", "x">> >>, << <<"5">> >> }

\* The configurations handed to Validate.
Assignments ==
    { [Number |-> n, OrdinalPluralConstant |-> o, DefaultICUSuffix |-> d,
       CurrencyCodeFull |-> f, GenderPronouns |-> g] :
         n \in ConstantValues \cup {Unchanged.Number},
         o \in ConstantValues \cup {Unchanged.OrdinalPluralConstant},
         d \in {<<>>, Unchanged.DefaultICUSuffix},
         f \in ConstantValues \cup {Unchanged.CurrencyCodeFull},
         g \in PronounLists \cup {Unchanged.GenderPronouns} }

\* The inputs parsed beside a validation.
ConfigInputs == { <<"{", "3", "}">> }

\* The inputs about quoted placeholders.
QuotedFragments ==
    { <<"{", "\"">>, <<"\"", "}">>, <<"\"">>, <<"{">>, <<"}">>, <<"a">>, <<" ">>,
      <<"\\">>, <<"'">> }

QuotedInputs == ConcatenationsOf(QuotedFragments, MaxPieces + 1)

\* The inputs about the context: brackets around and inside the text.
ContextFragments ==
    { <<"[">>, <<"]">>, <<"a">>, <<" ">>, <<"{">>, <<"\\">>,
      <<"[", "a", "]">>, <<"{", "3", "}">> }

ContextInputs == ConcatenationsOf(ContextFragments, MaxPieces + 1)

\* The inputs about letter case: directives of the default configuration in
\* other letter cases, and bodies that begin with the plural opener.
FoldFragments ==
    { <<"{", "T", "H", "E", "Y", "}">>,
      <<"{", "t", "h", "e", "y", "}">>,
      <<"{", "4", "T", "h", "}">>,
      <<"{", "u", "s", "d", " ", "1", "}">>,
      <<"{", "m", "O", "N", "D", "A", "Y", "}">>,
      <<"{", "2", "0", "2", "5", "}">>,
      <<"{", "2", " ">>, <<"{", "2">>, <<"{">>, <<"}">>, <<"a">>, <<" ">> }

FoldInputs == ConcatenationsOf(FoldFragments, MaxPieces)

\* The inputs of two calls of one parser: one token, several tokens, a
\* context, and failures.
LaterFragments ==
    { <<"a">>, <<"{", "3", "}">>, <<"{">>, <<"[", "a", "]">> }

LaterInputs == ConcatenationsOf(LaterFragments, MaxPieces)

\* The inputs parsed under the configurations of CustomConfigs: directives
\* that name their constants, the empty directive and an open plural block.
CustomFragments ==
    { <<"{", "4", "3", "}">>, <<"{", "T", "H", "E", "Y", "}">>,
      <<"{", "2", " ", "x", "}">>, <<"{", "}">>, <<"{", "2", " ">>, <<"}">>,
      <<"a">> }

CustomInputs == ConcatenationsOf(CustomFragments, MaxPieces)

\* The buffers a caller hands to Tokenize: nil, and buffers that hold tokens
\* of an earlier call.
Buffers ==
    { <<>>,
      <<Token(0, 1, TokenTypeStringLiteral)>>,
      <<Token(0, 3, TokenTypeCardinalPluralStart)>> }

FlagSets == {ICUModifier(g, pl) : g \in BOOLEAN, pl \in BOOLEAN}

\* The number of tokens of tokens that take a positional index.
RECURSIVE CountPositional(_)
CountPositional(tokens) ==
    IF tokens = <<>> THEN 0
    ELSE (IF Head(tokens).Type \in PositionalTypes THEN 1 ELSE 0)
         + CountPositional(Tail(tokens))

\* The modifier maps a caller hands to TIK2ICU for the TIK tk: the nil map and
\* the maps whose keys are positional indices of tk up to MaxModKey (the
\* translator reads a map only at the positional indices of the tokens).
ModifierMaps(tk) ==
    LET last == IF CountPositional(tk.Tokens) - 1 < MaxModKey
                THEN CountPositional(tk.Tokens) - 1 ELSE MaxModKey
    IN  {NilModifiers}
        \cup UNION {{Modifiers(f) : f \in [keys -> FlagSets]} : keys \in SUBSET (0..last)}

(***************************************************************************)
(* The state machine: one input string is handed to the parser or to the   *)
(* tokenizer, and a TIK that the parser returned is translated.            *)
(***************************************************************************)
VARIABLES
    input,      \* the string under test
    pc,         \* "ready", "parsed", "parsedFn", "later", "tokenized",
                \* "translated", "iterated" or "validated"
    parser,     \* the Parser: tokBuf and conf
    tik,        \* the TIK returned by Parser.Parse
    err,        \* the ErrParser returned by Parser.Parse
    call,       \* the buffer and the configuration of the Tokenize call
    ret,        \* what the Tokenize call returned (Tokens, ErrParser)
    translator, \* the ICUTranslator: its buffer b and conf
    modifiers,  \* the modifier map of the TIK2ICU call
    written,    \* what each iteration of the loop of TIK2ICUBuf wrote
    conf,       \* the fields assigned to the Config under validation
    verr,       \* what Config.Validate returned
    fn,         \* the TIKs the callback of Parser.ParseFn was called with
    heap,       \* the arrays of tokens: the one behind parser.tokBuf and the
                \* one the callback of Parser.Parse made
    kept,       \* the slice that tik.Tokens is
    later,      \* the input of a later call of the parser
    laterRet,   \* what the later call returned or handed to its callback
    yielded,    \* the pairs that ranging over tik.Placeholders() yielded
    scanned     \* the iterations of the loops of the Tokenize call of Parse

vars == <<input, pc, parser, tik, err, call, ret, translator, modifiers, written,
          conf, verr, fn, heap, kept, later, laterRet, yielded, scanned>>

\* The result of a call of the parser: the TIK returned or handed to the
\* callback, and the error.
Result(tk, e) == [tik |-> tk, err |-> e]

NoCall == [buffer |-> <<>>, c |-> NilConfig]

Init ==
    /\ input \in Inputs
    /\ pc = "ready"
    /\ parser \in {NewParser(c) : c \in {NilConfig, DefaultConfig}}
    /\ tik = ZeroTIK
    /\ err = ErrParser(0, ErrNil)
    /\ call = NoCall
    /\ ret = Return(<<>>, 0, ErrNil)
    /\ translator = NewICUTranslator(DefaultConfig)
    /\ modifiers = NilModifiers
    /\ written = <<>>
    /\ conf = Unchanged
    /\ verr = ErrNil
    /\ fn = <<>>
    /\ heap = [tokBuf |-> <<>>, cp |-> <<>>]
    /\ kept = NilTokens
    /\ later = <<"a">>
    /\ laterRet = Result(ZeroTIK, ErrParser(0, ErrNil))
    /\ yielded = <<>>
    /\ scanned = <<>>

\* tik, err := parser.Parse(input)
DoParse ==
    /\ pc = "ready"
    /\ \E r \in {Parse(parser, input)} :
          /\ parser' = [parser EXCEPT !.tokBuf = r.tokBuf]
          /\ tik' = r.tik
          /\ err' = r.err
          /\ kept' = r.cp
          /\ \E array \in ArraysAfter(heap.tokBuf, r.tokBuf, r.err.Err) :
                heap' = [tokBuf |-> array,
                         cp |-> IF r.cp.array = "cp" THEN r.tik.Tokens
                                ELSE heap.cp]
    /\ pc' = "parsed"
    /\ scanned' = Scanned(input, parser.conf)
    /\ UNCHANGED <<input, call, ret, translator, modifiers, written, conf, verr,
                   fn, later, laterRet, yielded>>

\* err := parser.ParseFn(input, fn), fn recording the TIK it is called with
DoParseFn ==
    /\ pc = "ready"
    /\ \E r \in {ParseFn(parser, input)} :
          /\ parser' = [parser EXCEPT !.tokBuf = r.tokBuf]
          /\ err' = r.err
          /\ fn' = IF r.called THEN Append(fn, r.ref) ELSE fn
          /\ \E array \in ArraysAfter(heap.tokBuf, r.tokBuf, r.err.Err) :
                heap' = [heap EXCEPT !.tokBuf = array]
    /\ pc' = "parsedFn"
    /\ scanned' = Scanned(input, parser.conf)
    /\ UNCHANGED <<input, tik, call, ret, translator, modifiers, written, conf,
                   verr, kept, later, laterRet, yielded>>

\* A later parser.Parse(later) or parser.ParseFn(later, fn) of the parser that
\* returned tik; the caller keeps tik and err of the earlier call.
DoParseLater ==
    /\ pc = "parsed"
    /\ \E r \in {[tokBuf |-> x.tokBuf, err |-> x.err, tik |-> x.tik] :
                     x \in {Parse(parser, later)}}
               \cup {[tokBuf |-> x.tokBuf, err |-> x.err,
                       tik |-> IF x.called THEN x.ref ELSE ZeroTIK] :
                        x \in {ParseFn(parser, later)}} :
          /\ parser' = [parser EXCEPT !.tokBuf = r.tokBuf]
          /\ laterRet' = Result(r.tik, r.err)
          /\ \E array \in ArraysAfter(heap.tokBuf, r.tokBuf, r.err.Err) :
                heap' = [heap EXCEPT !.tokBuf = array]
    /\ pc' = "later"
    /\ UNCHANGED <<input, tik, err, call, ret, translator, modifiers, written,
                   conf, verr, fn, kept, later, yielded, scanned>>

\* toks, err := tokenizer.Tokenize(buffer, input, c)
DoTokenize ==
    /\ pc = "ready"
    /\ \E buffer \in Buffers, c \in {NilConfig, DefaultConfig, parser.conf} :
          /\ call' = [buffer |-> buffer, c |-> c]
          /\ ret' = Tokenize(buffer, input, c)
    /\ pc' = "tokenized"
    /\ UNCHANGED <<input, parser, tik, err, translator, modifiers, written,
                   conf, verr, fn, heap, kept, later, laterRet, yielded, scanned>>

\* str := translator.TIK2ICU(tik, modifiers)
DoTIK2ICU ==
    /\ pc = "parsed"
    /\ err.Err = ErrNil
    /\ \E mods \in ModifierMaps(tik) :
          /\ modifiers' = mods
          /\ written' = WriteTokens(translator.conf, tik, 1, 0, mods)
          /\ translator' = [translator EXCEPT !.b = TIK2ICU(translator.conf, tik, mods)]
    /\ pc' = "translated"
    /\ UNCHANGED <<input, parser, tik, err, call, ret, conf, verr, fn, heap,
                   kept, later, laterRet, yielded, scanned>>

\* for i, tok := range tik.Placeholders() { ... } after the translation
DoPlaceholders ==
    /\ pc = "translated"
    /\ yielded' = Placeholders(tik)
    /\ pc' = "iterated"
    /\ UNCHANGED <<input, parser, tik, err, call, ret, translator, modifiers,
                   written, conf, verr, fn, heap, kept, later, laterRet, scanned>>

\* err := conf.Validate()
DoValidate ==
    /\ pc = "ready"
    /\ verr' = Validate(Custom(conf))
    /\ pc' = "validated"
    /\ UNCHANGED <<input, parser, tik, err, call, ret, translator, modifiers,
                   written, conf, fn, heap, kept, later, laterRet, yielded, scanned>>

Next ==
    \/ DoParse \/ DoParseFn \/ DoParseLater \/ DoTokenize \/ DoTIK2ICU
    \/ DoPlaceholders \/ DoValidate

Spec == Init /\ [][Next]_vars

\* The same machine started on the inputs of the set inputs and the
\* configurations of the set assignments.
InitOn(inputs, assignments) ==
    /\ input \in inputs
    /\ pc = "ready"
    /\ parser \in {NewParser(c) : c \in {NilConfig, DefaultConfig}}
    /\ tik = ZeroTIK
    /\ err = ErrParser(0, ErrNil)
    /\ call = NoCall
    /\ ret = Return(<<>>, 0, ErrNil)
    /\ translator = NewICUTranslator(DefaultConfig)
    /\ modifiers = NilModifiers
    /\ written = <<>>
    /\ conf \in assignments
    /\ verr = ErrNil
    /\ fn = <<>>
    /\ heap = [tokBuf |-> <<>>, cp |-> <<>>]
    /\ kept = NilTokens
    /\ later = <<"a">>
    /\ laterRet = Result(ZeroTIK, ErrParser(0, ErrNil))
    /\ yielded = <<>>
    /\ scanned = <<>>

InitPlural == InitOn(PluralInputs, {Unchanged})

SpecPlural == InitPlural /\ [][Next]_vars

InitQuoted == InitOn(QuotedInputs, {Unchanged})

SpecQuoted == InitQuoted /\ [][Next]_vars

InitContext == InitOn(ContextInputs, {Unchanged})

SpecContext == InitContext /\ [][Next]_vars

InitFold == InitOn(FoldInputs, {Unchanged})

SpecFold == InitFold /\ [][Next]_vars

\* The machine started on two inputs of one parser.
InitLater ==
    /\ input \in LaterInputs
    /\ pc = "ready"
    /\ parser = NewParser(DefaultConfig)
    /\ tik = ZeroTIK
    /\ err = ErrParser(0, ErrNil)
    /\ call = NoCall
    /\ ret = Return(<<>>, 0, ErrNil)
    /\ translator = NewICUTranslator(DefaultConfig)
    /\ modifiers = NilModifiers
    /\ written = <<>>
    /\ conf = Unchanged
    /\ verr = ErrNil
    /\ fn = <<>>
    /\ heap = [tokBuf |-> <<>>, cp |-> <<>>]
    /\ kept = NilTokens
    /\ later \in ConcatenationsOf(LaterFragments, MaxPieces - 1)
    /\ laterRet = Result(ZeroTIK, ErrParser(0, ErrNil))
    /\ yielded = <<>>
    /\ scanned = <<>>

SpecLater == InitLater /\ [][Next]_vars

\* The machine started with a parser and a translator of a configuration
\* that the caller made; conf holds what the caller assigned.
InitCustom ==
    /\ input \in CustomInputs
    /\ pc = "ready"
    /\ parser \in {NewParser(c) : c \in DOMAIN CustomConfigs}
    /\ tik = ZeroTIK
    /\ err = ErrParser(0, ErrNil)
    /\ call = NoCall
    /\ ret = Return(<<>>, 0, ErrNil)
    /\ translator = NewICUTranslator(parser.conf)
    /\ modifiers = NilModifiers
    /\ written = <<>>
    /\ conf = CustomConfigs[parser.conf]
    /\ verr = ErrNil
    /\ fn = <<>>
    /\ heap = [tokBuf |-> <<>>, cp |-> <<>>]
    /\ kept = NilTokens
    /\ later = <<"a">>
    /\ laterRet = Result(ZeroTIK, ErrParser(0, ErrNil))
    /\ yielded = <<>>
    /\ scanned = <<>>

SpecCustom == InitCustom /\ [][Next]_vars

InitConfig == InitOn(ConfigInputs, Assignments)

SpecConfig == InitConfig /\ [][Next]_vars

(***************************************************************************)
(* Vocabulary of the properties.                                           *)
(***************************************************************************)
Parsed == pc = "parsed"
ParsedOk == pc = "parsed" /\ err.Err = ErrNil
ParsedFn == pc = "parsedFn"
ParsedLater == pc = "later"
Iterated == pc = "iterated"
Tokenized == pc = "tokenized"
Translated == pc = "translated"
Validated == pc = "validated"

\* The number of consecutive backslashes that end right before offset i of s.
RECURSIVE BackslashesBefore(_, _)
BackslashesBefore(s, i) ==
    IF i > 0 /\ At(s, i - 1) = "\\" THEN 1 + BackslashesBefore(s, i - 1) ELSE 0

\* The brace at offset i of s is escaped: an odd number of backslashes precedes it.
EscapedAt(s, i) == BackslashesBefore(s, i) % 2 = 1

\* The offsets of the live (unescaped) braces of s.
LiveBraces(s) ==
    {i \in 0..(Len(s) - 1) : At(s, i) \in {"{", "}"} /\ ~EscapedAt(s, i)}

NoBraces(s) == \A k \in 1..Len(s) : s[k] \notin {"{", "}"}

\* The tokens that a directive {...} of the input becomes.
DirectiveTypes == SimplePlaceholderTypes \cup {TokenTypeOrdinalPlural, TokenTypeGenderPronoun}

\* s without its leading and trailing whitespace.
Stripped(s) ==
    LET solid == {k \in 1..Len(s) : ~IsSpace(s[k])}
    IN  IF solid = {} THEN <<>>
        ELSE SubSeq(s, CHOOSE k \in solid : \A j \in solid : k <= j,
                       CHOOSE k \in solid : \A j \in solid : k >= j)

\* s with every pair of backslashes, read from the left, replaced by one.
RECURSIVE Unpaired(_)
Unpaired(s) ==
    IF s = <<>> THEN <<>>
    ELSE IF Len(s) >= 2 /\ s[1] = "\\" /\ s[2] = "\\"
    THEN <<"\\">> \o Unpaired(SubSeq(s, 3, Len(s)))
    ELSE <<s[1]>> \o Unpaired(Tail(s))

\* The number of '{' of s minus the number of '}' of s.
BraceDepth(s) ==
    Cardinality({k \in 1..Len(s) : s[k] = "{"})
    - Cardinality({k \in 1..Len(s) : s[k] = "}"})

RECURSIVE SumDepth(_, _)
SumDepth(strs, keep) ==
    IF strs = <<>> THEN 0
    ELSE (IF Head(keep) THEN BraceDepth(Head(strs)) ELSE 0)
         + SumDepth(Tail(strs), Tail(keep))

\* The positional index of token k of the translated TIK.
PosOf(k) == CountPositional(SubSeq(tik.Tokens, 1, k - 1))

\* The modifier entry that applies to token k, the zero ICUModifier if none.
EntryOf(k) ==
    IF ~modifiers.isNil /\ PosOf(k) \in DOMAIN modifiers.entries
    THEN modifiers.entries[PosOf(k)]
    ELSE ICUModifier(FALSE, FALSE)

\* What the translator writes for token k when no modifier applies to it.
NormalEmission(k) ==
    WriteToken(translator.conf, tik.Tokens[k], tik.Raw, PosOf(k), NilModifiers)

GenderOpener(n) ==
    <<"{">> \o <<"v", "a", "r">> \o Itoa(n) \o SuffixGender \o CommaSelect \o OtherOpen

PluralOpener(n) ==
    <<"{">> \o <<"v", "a", "r">> \o Itoa(n) \o SuffixPlural \o CommaPlural \o OtherOpen

\* What was written for token k is its normal emission behind the select
\* opener (if g) and the plural opener (if p), followed by closing braces only.
Wrapped(k, g, p) ==
    LET pre == (IF g THEN GenderOpener(PosOf(k)) ELSE <<>>)
               \o (IF p THEN PluralOpener(PosOf(k)) ELSE <<>>)
               \o NormalEmission(k)
        w == written[k]
    IN  IF ~g /\ ~p THEN w = NormalEmission(k)
        ELSE /\ Len(w) > Len(pre)
             /\ SubSeq(w, 1, Len(pre)) = pre
             /\ \A j \in (Len(pre) + 1)..Len(w) : w[j] = "}"

(***************************************************************************)
(* C1..C10.                                                                *)
(***************************************************************************)
\* C1: in every successfully parsed input a brace preceded by an odd number of
\* backslashes is literal content (no directive token starts or ends at it and
\* no CardinalPluralEnd token is on it), and a brace preceded by an even
\* number of backslashes is live (it is inside no Literal token); also inside
\* an open plural block.
C1_EscapeParity ==
    ParsedOk =>
        \A k \in 1..Len(tik.Tokens) :
            LET tok == tik.Tokens[k] IN
            /\ tok.Type = TokenTypeCardinalPluralEnd => ~EscapedAt(input, tok.IndexStart)
            /\ tok.Type \in DirectiveTypes \cup {TokenTypeCardinalPluralStart}
                  => ~EscapedAt(input, tok.IndexStart)
            /\ tok.Type \in DirectiveTypes => ~EscapedAt(input, tok.IndexEnd - 1)
            /\ tok.Type = TokenTypeStringLiteral
                  => \A i \in tok.IndexStart..(tok.IndexEnd - 1) : i \notin LiveBraces(input)

\* C2: when the first live brace of an input without context is a '{' (so it
\* opens a directive): if no live '}' follows it, Parse fails with
\* ErrUnclosedPlaceholder at the index of that '{'; and if the directive
\* becomes a placeholder token, the token ends with the next live '}'.
C2_DirectiveExtent ==
    (/\ Parsed
     /\ LiveBraces(input) # {}
     /\ At(input, SkipSpaces(input, 0)) # "[") =>
        LET open == CHOOSE i \in LiveBraces(input) : \A j \in LiveBraces(input) : i <= j
            closers == {j \in LiveBraces(input) : j > open /\ At(input, j) = "}"}
        IN  At(input, open) = "{" =>
                /\ closers = {} => err = ErrParser(open, ErrUnclosedPlaceholder)
                /\ \A k \in 1..Len(tik.Tokens) :
                      (tik.Tokens[k].IndexStart = open /\ tik.Tokens[k].Type \in DirectiveTypes)
                          => /\ closers # {}
                             /\ tik.Tokens[k].IndexEnd - 1
                                  = CHOOSE j \in closers : \A j2 \in closers : j <= j2

\* C3: the braces that the translator writes for the tokens that are not
\* literals are balanced in the ICU message: their depth is zero at the end.
C3_BraceBalanced ==
    Translated =>
        SumDepth(written,
                 [k \in 1..Len(tik.Tokens) |-> tik.Tokens[k].Type # TokenTypeStringLiteral]) = 0

\* C4: for a placeholder with content C at positional index N, a modifier with
\* only Gender set emits {<N>_gender, select, other {C}}, only Plural set emits
\* {<N>_plural, plural, other {C}}, and both set emit
\* {<N>_gender, select, other {{<N>_plural, plural, other {C}}}}.
C4_ModifierShapes ==
    Translated =>
        \A k \in 1..Len(tik.Tokens) :
            tik.Tokens[k].Type \in SimplePlaceholderTypes =>
                LET m == EntryOf(k)
                    n == PosOf(k)
                    content == NormalEmission(k)
                IN  /\ (m.Gender /\ ~m.Plural)
                          => written[k] = GenderOpener(n) \o content \o <<"}", "}">>
                    /\ (~m.Gender /\ m.Plural)
                          => written[k] = PluralOpener(n) \o content \o <<"}", "}">>
                    /\ (m.Gender /\ m.Plural)
                          => written[k] = GenderOpener(n) \o PluralOpener(n) \o content
                                          \o <<"}", "}", "}", "}">>

\* C5 as claimed: for every token that takes a positional index, whatever its
\* type, each flag set in the modifier entry of its index wraps the token's
\* normal emission in the select and/or plural block.
C5_EveryTypeWrapped ==
    Translated =>
        \A k \in 1..Len(tik.Tokens) :
            tik.Tokens[k].Type \in PositionalTypes
                => Wrapped(k, EntryOf(k).Gender, EntryOf(k).Plural)

\* C5 as amended: a string placeholder, number, time or currency token is
\* wrapped according to both flags; a gender pronoun token is wrapped according
\* to Plural only, its Gender flag is ignored; an OrdinalPlural or
\* CardinalPluralStart token is emitted unmodified whatever the flags.
C5_WrappedByType ==
    Translated =>
        \A k \in 1..Len(tik.Tokens) :
            LET type == tik.Tokens[k].Type IN
            /\ type \in SimplePlaceholderTypes
                  => Wrapped(k, EntryOf(k).Gender, EntryOf(k).Plural)
            /\ type = TokenTypeGenderPronoun => Wrapped(k, FALSE, EntryOf(k).Plural)
            /\ type \in {TokenTypeOrdinalPlural, TokenTypeCardinalPluralStart}
                  => written[k] = NormalEmission(k)

\* A gender pronoun token was translated with both flags set at its index.
C5_Witness ==
    /\ Translated
    /\ \E k \in 1..Len(tik.Tokens) :
          /\ tik.Tokens[k].Type = TokenTypeGenderPronoun
          /\ EntryOf(k) = ICUModifier(TRUE, TRUE)

\* C6: whenever Tokenize, called with a nil buffer, returns an error, the
\* tokens it returns are empty.
C6_ErrorReturnsNoTokens ==
    (/\ Tokenized
     /\ call.buffer = <<>>
     /\ ret.Err.Err \notin {ErrNil, Panic}) => ret.Tokens = <<>>

\* C7: the Index of an error of Parse is the offset of the character that
\* triggered it: the '{' for ErrUknownPlaceholder, ErrUnclosedPlaceholder,
\* ErrNestedPluralization and ErrDirectiveStartsCardinalPlural, the '}' for
\* ErrUnexpClosure, and an offset inside the bracketed context for the three
\* context errors.
C7_ErrorIndexIsOffender ==
    Parsed =>
        /\ err.Err \in {ErrUknownPlaceholder, ErrUnclosedPlaceholder,
                        ErrNestedPluralization, ErrDirectiveStartsCardinalPlural}
              => err.Index < Len(input) /\ At(input, err.Index) = "{"
        /\ err.Err = ErrUnexpClosure
              => err.Index < Len(input) /\ At(input, err.Index) = "}"
        /\ err.Err \in {ErrContextUnclosed, ErrContextEmpty, ErrContextInvalid}
              => LET open == SkipSpaces(input, 0)
                     close == IndexAny(input, open, {"]"})
                 IN  /\ open <= err.Index
                     /\ err.Index <= (IF close = -1 THEN Len(input) - 1 ELSE close)

\* C8: Tokenize called with a nil configuration returns what Tokenize called
\* with DefaultConfig() returns for the same buffer and input.
C8_NilConfigIsDefault ==
    (Tokenized /\ call.c = NilConfig)
        => ret = Tokenize(call.buffer, input, DefaultConfig)

\* C9 as claimed: for any input without '{' and '}', Parse succeeds with exactly
\* one token, a Literal, whose String is the input without its leading and
\* trailing whitespace.
C9_LiteralRoundTrip ==
    (Parsed /\ NoBraces(input)) =>
        /\ err.Err = ErrNil
        /\ Len(tik.Tokens) = 1
        /\ tik.Tokens[1].Type = TokenTypeStringLiteral
        /\ TokenString(tik.Tokens[1], tik.Raw) = Stripped(input)

\* C9 as amended: for any input without '{' and '}' that is not all whitespace
\* and whose first character after the leading whitespace is not '[', Parse
\* succeeds with exactly one token, a Literal that spans the input without its
\* leading and trailing whitespace, and whose String is that text with every
\* pair of backslashes replaced by one backslash.
C9_LiteralRoundTripUnescaped ==
    (/\ Parsed
     /\ NoBraces(input)
     /\ Stripped(input) # <<>>
     /\ Stripped(input)[1] # "[") =>
        /\ err.Err = ErrNil
        /\ Len(tik.Tokens) = 1
        /\ tik.Tokens[1].Type = TokenTypeStringLiteral
        /\ Slice(input, tik.Tokens[1].IndexStart, tik.Tokens[1].IndexEnd) = Stripped(input)
        /\ TokenString(tik.Tokens[1], tik.Raw) = Unpaired(Stripped(input))

\* An input without braces, with whitespace around its text and a pair of
\* backslashes in it, was parsed into one Literal.
C9_Witness ==
    /\ ParsedOk
    /\ NoBraces(input)
    /\ Stripped(input) # <<>>
    /\ Stripped(input)[1] # "["
    /\ Stripped(input) # input
    /\ Len(tik.Tokens) = 1
    /\ tik.Tokens[1].Type = TokenTypeStringLiteral
    /\ TokenString(tik.Tokens[1], tik.Raw) # Stripped(input)

\* C10: Parse accepts no plural block whose content begins or ends with a
\* whitespace character.
C10_PluralBlockNotSpaced ==
    ParsedOk =>
        \A k \in 1..Len(tik.Tokens) :
            /\ (tik.Tokens[k].Type = TokenTypeCardinalPluralStart
                /\ tik.Tokens[k].IndexEnd < Len(input))
                  => ~IsSpace(At(input, tik.Tokens[k].IndexEnd))
            /\ tik.Tokens[k].Type = TokenTypeCardinalPluralEnd
                  => ~IsSpace(At(input, tik.Tokens[k].IndexStart - 1))

(***************************************************************************)
(* C11..C20.                                                               *)
(***************************************************************************)
\* The plural opener of the default configuration, as written in an input.
Opener == <<"{", "2", " ">>

\* The string p is in s at offset i.
HasAt(s, i, p) == i >= 0 /\ i + Len(p) <= Len(s) /\ Slice(s, i, i + Len(p)) = p

\* s is text without braces, brackets and backslashes.
PlainText(s) == \A k \in 1..Len(s) : s[k] \notin {"{", "}", "[", "]", "\\"}

\* s is made of plain characters and of directives {3}.
RECURSIVE BlockContent(_)
BlockContent(s) ==
    IF s = <<>> THEN TRUE
    ELSE IF HasAt(s, 0, <<"{", "3", "}">>) THEN BlockContent(SubSeq(s, 4, Len(s)))
    ELSE PlainText(<<s[1]>>) /\ BlockContent(Tail(s))

\* A plural block is opened at offset i of s after plain text, and at offset
\* j the tokenizer is in that block: what lies between is literal text that
\* may be followed by directives and more text.
OpenBlockAt(s, i, j) ==
    /\ HasAt(s, i, Opener)
    /\ PlainText(Slice(s, 0, i))
    /\ i + 3 <= j /\ j <= Len(s)
    /\ BlockContent(Slice(s, i + 3, j))
    /\ (i + 3 < j => At(s, i + 3) # "{")

OutsideBlockAt(s, j) ==
    \/ PlainText(Slice(s, 0, j))
    \/ \E i \in 0..j, k \in 0..(j - 1) :
          /\ OpenBlockAt(s, i, k)
          /\ k > i + 3
          /\ At(s, k) = "}"
          /\ PlainText(Slice(s, k + 1, j))

\* C13: a '}' read in an open plural block that holds a token closes it: a
\* successful Parse has a CardinalPluralEnd token on exactly that '}', and an
\* error can only come from further on; a '}' right after the opener makes
\* Parse fail with CardinalPluralEmpty; a '}' read while no block is open and
\* no directive is being read makes Parse fail with UnexpectedClosure at it.
C13_PluralBlockClosure ==
    Parsed =>
        \A j \in 0..(Len(input) - 1) :
            At(input, j) = "}" =>
                /\ \A i \in 0..j :
                      (OpenBlockAt(input, i, j) /\ j > i + 3)
                         => IF err.Err = ErrNil
                            THEN /\ \E k \in 1..Len(tik.Tokens) :
                                       tik.Tokens[k]
                                         = Token(j, j + 1, TokenTypeCardinalPluralEnd)
                                 /\ Cardinality(
                                       {k \in 1..Len(tik.Tokens) :
                                          /\ tik.Tokens[k].Type = TokenTypeCardinalPluralEnd
                                          /\ tik.Tokens[k].IndexStart <= j}) = 1
                            ELSE err.Index > j
                /\ \A i \in 0..j :
                      (OpenBlockAt(input, i, j) /\ j = i + 3)
                         => err = ErrParser(i, ErrCardinalPluralEmpty)
                /\ OutsideBlockAt(input, j) => err = ErrParser(j, ErrUnexpClosure)

\* A plural block that holds text and a directive was closed by its '}' and
\* Parse has succeeded.
C13_Witness ==
    /\ ParsedOk
    /\ \E i \in 0..Len(input), j \in 0..(Len(input) - 1) :
          /\ OpenBlockAt(input, i, j)
          /\ j > i + 6
          /\ At(input, j) = "}"
          /\ \E k \in 1..Len(tik.Tokens) :
                tik.Tokens[k] = Token(j, j + 1, TokenTypeCardinalPluralEnd)

\* The characters a quoted placeholder must not contain.
IllegalChars == {"\\", "{", "}", "\""}

\* A quoted placeholder is written at offset i of s after plain text, and e
\* is the offset of its closing quote: the first quote that a '}' follows.
QuotedAt(s, i, e) ==
    /\ HasAt(s, i, <<"{", "\"">>)
    /\ PlainText(Slice(s, 0, i))
    /\ e >= i + 2
    /\ HasAt(s, e, <<"\"", "}">>)
    /\ \A k \in (i + 2)..(e - 1) : ~HasAt(s, k, <<"\"", "}">>)

\* The text between the quotes is acceptable.
QuotedTextOk(text) ==
    /\ text # <<>>
    /\ ~IsSpace(text[1])
    /\ ~IsSpace(text[Len(text)])
    /\ \A k \in 1..Len(text) : text[k] \notin IllegalChars

\* C14: a quoted placeholder with acceptable text between its quotes raises
\* no error (an error can only come from further on), and one with
\* unacceptable text makes Parse fail with StringPlaceholderEmpty at the place
\* of the text if the text is empty, with StringPlaceholderInvSpace at a
\* whitespace character that starts or ends the text, or with
\* StringPlaceholderIllegalChars at a character of the text that is one of
\* \ { } ".
C14_StringPlaceholderValidated ==
    Parsed =>
        \A i \in 0..Len(input), e \in 0..Len(input) :
            QuotedAt(input, i, e) =>
                LET text == Slice(input, i + 2, e)
                IN  IF QuotedTextOk(text)
                    THEN err.Err = ErrNil \/ err.Index >= e + 2
                    ELSE \/ /\ err.Err = ErrStringPlaceholderEmpty
                            /\ text = <<>>
                            /\ err.Index = i + 2
                         \/ /\ err.Err = ErrStringPlaceholderInvSpace
                            /\ err.Index \in {i + 2, e - 1}
                            /\ err.Index < e
                            /\ IsSpace(At(input, err.Index))
                         \/ /\ err.Err = ErrStringPlaceholderIllegalChars
                            /\ err.Index \in (i + 2)..(e - 1)
                            /\ At(input, err.Index) \in IllegalChars

\* Parse has failed on a quoted placeholder whose text ends with a whitespace
\* character.
C14_Witness ==
    /\ Parsed
    /\ err.Err = ErrStringPlaceholderInvSpace
    /\ \E i \in 0..Len(input), e \in 0..Len(input) :
          /\ QuotedAt(input, i, e)
          /\ err.Index = e - 1
          /\ err.Index > i + 2

\* All the magic constants of m, the gender pronouns included.
AllConstants(m) == ConstantList(m) \o m.GenderPronouns

\* The shape asked of a magic constant.
ShapeOk(s) ==
    /\ s # <<>>
    /\ \A k \in 1..Len(s) : s[k] \notin {"{", "}", "\""}
    /\ ~IsSpace(s[1])
    /\ ~IsSpace(s[Len(s)])

ShapesOk(m) == \A k \in 1..Len(AllConstants(m)) : ShapeOk(AllConstants(m)[k])

Distinct(m) ==
    \A k, l \in 1..Len(AllConstants(m)) :
        k # l => AllConstants(m)[k] # AllConstants(m)[l]

\* C15: Validate returns nil exactly when every magic constant and pronoun
\* has the shape asked, all of them are pairwise distinct, the pronoun list
\* is not empty and the default ordinal suffix is not empty; and the error it
\* returns names a violation that is there: MagicConstantInvalid a wrong
\* shape or an empty pronoun list, MagicConstantNonUnique a duplicate,
\* MissingDefault an empty suffix.
C15_ValidateExact ==
    Validated =>
        LET m == Custom(conf).MagicConstants
        IN  /\ verr = ErrNil <=>
                   /\ ShapesOk(m)
                   /\ Distinct(m)
                   /\ m.GenderPronouns # <<>>
                   /\ m.OrdinalPlural.DefaultICUSuffix # <<>>
            /\ verr \in {ErrNil, ErrConfMagicConstantInvalid,
                          ErrConfMagicConstantNonUnique, ErrConfMissingDefault}
            /\ verr = ErrConfMagicConstantInvalid
                   => ~ShapesOk(m) \/ m.GenderPronouns = <<>>
            /\ verr = ErrConfMagicConstantNonUnique => ~Distinct(m)
            /\ verr = ErrConfMissingDefault
                   => m.OrdinalPlural.DefaultICUSuffix = <<>>
            /\ (ShapesOk(m) /\ Distinct(m) /\ m.GenderPronouns # <<>>)
                   => verr \in {ErrNil, ErrConfMissingDefault}
            /\ (ShapesOk(m) /\ m.GenderPronouns # <<>>
                 /\ m.OrdinalPlural.DefaultICUSuffix # <<>>)
                   => verr \in {ErrNil, ErrConfMagicConstantNonUnique}
            /\ (Distinct(m) /\ m.OrdinalPlural.DefaultICUSuffix # <<>>)
                   => verr \in {ErrNil, ErrConfMagicConstantInvalid}

\* Validate has refused a configuration whose only fault is a pronoun that
\* repeats one of the other constants.
C15_Witness ==
    /\ Validated
    /\ verr = ErrConfMagicConstantNonUnique
    /\ ShapesOk(Custom(conf).MagicConstants)
    /\ conf.GenderPronouns # Unchanged.GenderPronouns
    /\ \A k, l \in 1..Len(ConstantList(Custom(conf).MagicConstants)) :
          k # l => ConstantList(Custom(conf).MagicConstants)[k]
                     # ConstantList(Custom(conf).MagicConstants)[l]
    /\ \E k \in 1..Len(conf.GenderPronouns) :
          \E l \in 1..Len(ConstantList(Custom(conf).MagicConstants)) :
              conf.GenderPronouns[k] = ConstantList(Custom(conf).MagicConstants)[l]

\* The offset of the first character of s that is no whitespace, Len(s) if
\* there is none.
Lead(s) ==
    CHOOSE k \in 0..Len(s) :
        /\ \A j \in 0..(k - 1) : IsSpace(At(s, j))
        /\ k = Len(s) \/ ~IsSpace(At(s, k))

\* s has a context: its first character that is no whitespace is '['.
HasContext(s) == Lead(s) < Len(s) /\ At(s, Lead(s)) = "["

\* The offsets of the ']' of s after offset k.
Closers(s, k) == {j \in (k + 1)..(Len(s) - 1) : At(s, j) = "]"}

\* The offset of the first ']' of s after offset k.
FirstCloser(s, k) ==
    CHOOSE j \in Closers(s, k) : \A n \in Closers(s, k) : j <= n

\* The text between the '[' at offset k of s and the first ']' after it.
ContextText(s, k) == Slice(s, k + 1, FirstCloser(s, k))

ContextErrors == {ErrContextUnclosed, ErrContextEmpty, ErrContextInvalid}

\* The tokens are one Context token from offset k to after offset e, and
\* tokens of other types after it.
OneContextToken(tokens, k, e) ==
    /\ Len(tokens) >= 1
    /\ tokens[1] = Token(k, e + 1, TokenTypeContext)
    /\ \A n \in 2..Len(tokens) : tokens[n].Type # TokenTypeContext

\* What Parse says about the context of input; emitted is what is asked of
\* an input whose context is valid.
ContextOutcome(emitted) ==
    LET k == Lead(input) IN
    IF Closers(input, k) = {} THEN err.Err = ErrContextUnclosed
    ELSE IF \A j \in 1..Len(ContextText(input, k)) :
                IsSpace(ContextText(input, k)[j])
    THEN err.Err = ErrContextEmpty
    ELSE IF \E j \in 1..Len(ContextText(input, k)) :
                ContextText(input, k)[j] \in {"{", "}", "[", "\\"}
    THEN err.Err = ErrContextInvalid
    ELSE emitted

\* C16 (as stated): when the first character of the input that is no
\* whitespace is '[', Parse fails with ContextUnclosed if no ']' follows,
\* otherwise with ContextEmpty if the text up to the first ']' is blank,
\* otherwise with ContextInvalid if that text holds one of { } [ \, and
\* otherwise the tokens start with exactly one Context token from '[' through
\* ']'.
C16_ContextTokenEmitted ==
    (Parsed /\ HasContext(input)) =>
        ContextOutcome(OneContextToken(tik.Tokens, Lead(input),
                                       FirstCloser(input, Lead(input))))

\* C16 (amended): the same outcomes for the three context errors; an input
\* whose context is valid gets none of the three errors, and when its parse
\* succeeds the tokens start with exactly one Context token from '[' through
\* ']' and hold no second Context token, whatever brackets the text body has.
C16_ContextRules ==
    (Parsed /\ HasContext(input)) =>
        ContextOutcome(
            /\ err.Err \notin ContextErrors
            /\ err.Err = ErrNil =>
                   OneContextToken(tik.Tokens, Lead(input),
                                   FirstCloser(input, Lead(input))))

\* A valid context followed by a text body with a further [...] group was
\* parsed.
C16_Witness ==
    /\ ParsedOk
    /\ HasContext(input)
    /\ OneContextToken(tik.Tokens, Lead(input), FirstCloser(input, Lead(input)))
    /\ \E i \in Closers(input, Lead(input)) :
          /\ At(input, i) = "]"
          /\ i > FirstCloser(input, Lead(input)) + 1
          /\ \E j \in (FirstCloser(input, Lead(input)) + 1)..(i - 1) :
                At(input, j) = "["

\* Every character of s is whitespace.
AllSpace(s) == \A j \in 1..Len(s) : IsSpace(s[j])

\* s has a context that is closed, not blank and free of { } [ \.
ValidContext(s) ==
    /\ HasContext(s)
    /\ Closers(s, Lead(s)) # {}
    /\ ~AllSpace(ContextText(s, Lead(s)))
    /\ \A j \in 1..Len(ContextText(s, Lead(s))) :
          ContextText(s, Lead(s))[j] \notin {"{", "}", "[", "\\"}

\* What follows the first ']' of an s that has a closed context.
AfterContext(s) == Slice(s, FirstCloser(s, Lead(s)) + 1, Len(s))

\* s has an empty text body: nothing but whitespace, or a bracketed group and
\* nothing but whitespace after it.
EmptyTextBody(s) ==
    \/ AllSpace(s)
    \/ /\ HasContext(s)
       /\ Closers(s, Lead(s)) # {}
       /\ AllSpace(AfterContext(s))

\* C17: Parse of an empty or all-whitespace input fails with TextEmpty at
\* offset 0; Parse of a valid context followed by nothing but whitespace fails
\* with TextEmpty; and no input with an empty text body is accepted.
C17_TextEmpty ==
    Parsed =>
        /\ AllSpace(input) => err = ErrParser(0, ErrTextEmpty)
        /\ (ValidContext(input) /\ AllSpace(AfterContext(input))) =>
               err.Err = ErrTextEmpty
        /\ EmptyTextBody(input) => err.Err # ErrNil

\* A valid context between whitespace and nothing else was parsed.
C17_Witness ==
    /\ Parsed
    /\ Lead(input) > 0
    /\ ValidContext(input)
    /\ AfterContext(input) # <<>>
    /\ AllSpace(AfterContext(input))
    /\ err.Err = ErrTextEmpty

\* a and b are equal up to the case of their letters.
SameUpToCase(a, b) ==
    /\ Len(a) = Len(b)
    /\ \A j \in 1..Len(a) : ToLower(a[j]) = ToLower(b[j])

\* The constants of the magic constants m with the token types they stand
\* for, the plural opener left out.
ConstantTypes(m) ==
    { <<m.Number, TokenTypeNumber>>,
      <<m.OrdinalPlural.Constant, TokenTypeOrdinalPlural>>,
      <<m.TimeShort, TokenTypeTimeShort>>,
      <<m.TimeShortSeconds, TokenTypeTimeShortSeconds>>,
      <<m.TimeFullMonthAndDay, TokenTypeTimeFullMonthAndDay>>,
      <<m.TimeShortMonthAndDay, TokenTypeTimeShortMonthAndDay>>,
      <<m.TimeFullMonthAndYear, TokenTypeTimeFullMonthAndYear>>,
      <<m.TimeWeekday, TokenTypeTimeWeekday>>,
      <<m.TimeDateAndShort, TokenTypeTimeDateAndShort>>,
      <<m.TimeYear, TokenTypeTimeYear>>,
      <<m.TimeFull, TokenTypeTimeFull>>,
      <<m.CurrencyRounded, TokenTypeCurrencyRounded>>,
      <<m.CurrencyFull, TokenTypeCurrencyFull>>,
      <<m.CurrencyCodeRounded, TokenTypeCurrencyCodeRounded>>,
      <<m.CurrencyCodeFull, TokenTypeCurrencyCodeFull>> }
    \cup {<<m.GenderPronouns[k], TokenTypeGenderPronoun>> :
              k \in DOMAIN m.GenderPronouns}

\* The constants of the parser's configuration that the body b equals up to
\* letter case, with their token types.
ConstantsOf(b) ==
    {ct \in ConstantTypes(Deref(parser.conf).MagicConstants) :
        SameUpToCase(b, ct[1])}

\* The plural opener of the parser's configuration.
PluralStart == Deref(parser.conf).MagicConstants.CardinalPluralStart

\* The body b begins with the plural opener up to letter case.
BeginsWithPluralStart(b) ==
    /\ Len(b) >= Len(PluralStart)
    /\ SameUpToCase(Slice(b, 0, Len(PluralStart)), PluralStart)

\* input begins, after whitespace, with a directive that is closed.
LeadingDirective ==
    /\ Lead(input) < Len(input)
    /\ At(input, Lead(input)) = "{"
    /\ \E j \in (Lead(input) + 1)..(Len(input) - 1) : At(input, j) = "}"

\* The offset of the first '}' of input.
LeadingClose ==
    CHOOSE j \in (Lead(input) + 1)..(Len(input) - 1) :
        /\ At(input, j) = "}"
        /\ \A n \in (Lead(input) + 1)..(j - 1) : At(input, n) # "}"

\* The body of the leading directive of input.
LeadingBody == Slice(input, Lead(input) + 1, LeadingClose)

\* C18: a directive body that equals a constant of the configuration up to
\* letter case gets the token type of that constant and a token that spans
\* the directive as written; a body that is no constant and begins with the
\* plural opener starts a plural block if a whitespace follows the opener and
\* is an unknown placeholder otherwise.
C18_CaseInsensitiveMatch ==
    (Parsed /\ LeadingDirective /\ LeadingBody # <<>> /\ LeadingBody[1] # "\"") =>
        /\ \A ct \in ConstantsOf(LeadingBody) :
              /\ err.Err = ErrNil =>
                     tik.Tokens[1] = Token(Lead(input), LeadingClose + 1, ct[2])
              /\ err.Err # ErrNil => err.Index > LeadingClose
        /\ (ConstantsOf(LeadingBody) = {} /\ BeginsWithPluralStart(LeadingBody)) =>
              IF /\ Len(LeadingBody) > Len(PluralStart)
                 /\ IsSpace(At(LeadingBody, Len(PluralStart)))
              THEN /\ err.Err = ErrNil =>
                          tik.Tokens[1] =
                              Token(Lead(input),
                                    Lead(input) + Len(PluralStart) + 2,
                                    TokenTypeCardinalPluralStart)
                   /\ err # ErrParser(Lead(input), ErrUknownPlaceholder)
              ELSE err = ErrParser(Lead(input), ErrUknownPlaceholder)

\* A directive whose body is a constant in another letter case was parsed
\* into a token of the type of the constant.
C18_Witness ==
    /\ ParsedOk
    /\ LeadingDirective
    /\ \E ct \in ConstantsOf(LeadingBody) :
          /\ ct[1] # LeadingBody
          /\ tik.Tokens[1] = Token(Lead(input), LeadingClose + 1, ct[2])

\* C19: whenever Parse returns an error it returns the zero TIK; whenever
\* ParseFn returns an error its callback was not called; and when ParseFn
\* succeeds its callback was called exactly once, with Raw equal to the input.
C19_TIKOnlyOnSuccess ==
    /\ (Parsed /\ err.Err # ErrNil) => tik = ZeroTIK
    /\ (ParsedFn /\ err.Err # ErrNil) => fn = <<>>
    /\ (ParsedFn /\ err.Err = ErrNil) => (Len(fn) = 1 /\ fn[1].Raw = input)

\* ParseFn succeeded on an input with a directive and called fn with tokens.
C19_Witness ==
    /\ ParsedFn
    /\ err.Err = ErrNil
    /\ Len(fn) = 1
    /\ fn[1].Raw = input
    /\ \E k \in DOMAIN fn[1].Tokens : fn[1].Tokens[k].Type \in DirectiveTypes

\* The tokens that the slice kept reads from the heap.
KeptTokens ==
    IF kept.array = "nil" THEN <<>>
    ELSE SubSeq(heap[kept.array], 1, kept.len)

\* C20: after a later Parse or ParseFn of the same parser, failed or not, the
\* tokens of the TIK that the earlier Parse returned read as they did when
\* it was returned.
C20_TokensNotAliased ==
    (Parsed \/ ParsedLater) => KeptTokens = tik.Tokens

\* A later call has overwritten the array behind the parser's buffer under a
\* TIK with tokens that an earlier Parse returned.
C20_Witness ==
    /\ ParsedLater
    /\ tik.Tokens # <<>>
    /\ Len(heap.tokBuf) >= Len(tik.Tokens)
    /\ SubSeq(heap.tokBuf, 1, Len(tik.Tokens)) # tik.Tokens
    /\ KeptTokens = tik.Tokens

(***************************************************************************)
(* C21..C30.                                                               *)
(***************************************************************************)
DigitChars == {Digits[d] : d \in DOMAIN Digits}

\* The number that the digits of w from position j on spell behind acc.
RECURSIVE ReadNumber(_, _, _)
ReadNumber(w, j, acc) ==
    IF j <= Len(w) /\ w[j] \in DigitChars
    THEN ReadNumber(w, j + 1,
                    acc * 10 + ((CHOOSE d \in DOMAIN Digits : Digits[d] = w[j]) - 1))
    ELSE acc

\* w begins with an opening brace and a positional name.
NamesArgument(w) ==
    /\ Len(w) >= 5
    /\ SubSeq(w, 1, 4) = <<"{", "v", "a", "r">>
    /\ w[5] \in DigitChars

\* The positional index in the name that w begins with.
IndexUsed(w) == ReadNumber(w, 5, 0)

\* Token k of the TIK is none of Context, Literal and CardinalPluralEnd.
Consumes(k) ==
    tik.Tokens[k].Type \notin {TokenTypeContext, TokenTypeStringLiteral,
                               TokenTypeCardinalPluralEnd}

\* The number of tokens before token k that consume an index.
ConsumedBefore(k) == Cardinality({j \in 1..(k - 1) : Consumes(j)})

\* C21: the translator names the tokens other than Context, Literal and
\* CardinalPluralEnd with the indices 0, 1, 2, ... in token order, and the
\* index in the name of a token is the index that TIK.Placeholders() yields
\* with that token.
C21_PositionalIndices ==
    Iterated =>
        /\ Len(yielded) = Cardinality({k \in DOMAIN tik.Tokens : Consumes(k)})
        /\ \A k \in DOMAIN tik.Tokens :
              Consumes(k) =>
                 /\ NamesArgument(written[k])
                 /\ IndexUsed(written[k]) = ConsumedBefore(k)
                 /\ yielded[IndexUsed(written[k]) + 1] =
                        [i |-> IndexUsed(written[k]), t |-> tik.Tokens[k]]

\* A TIK with a placeholder behind a closed plural block was translated and
\* ranged over.
C21_Witness ==
    /\ Iterated
    /\ Len(yielded) >= 2
    /\ \E k \in DOMAIN tik.Tokens :
          /\ tik.Tokens[k].Type = TokenTypeCardinalPluralEnd
          /\ \E j \in (k + 1)..Len(tik.Tokens) :
                /\ Consumes(j)
                /\ IndexUsed(written[j]) = 1
                /\ yielded[2].t = tik.Tokens[j]

\* The positional name of index n between an opening brace and what follows
\* the name.
Named(n, rest) == <<"{", "v", "a", "r">> \o Itoa(n) \o rest

CommaNumber == <<",", " ", "n", "u", "m", "b", "e", "r">>
CommaCurrency ==
    CommaNumber \o <<",", " ", ":", ":", "c", "u", "r", "r", "e", "n", "c", "y",
                     "/", "a", "u", "t", "o">>
CommaTime == <<",", " ", "t", "i", "m", "e", ",", " ">>

\* The emission that is stated for a token of type tp at index n, for the
\* types of the tokenizer that the statement names.
StatedEmission(tp, n) ==
    IF tp = TokenTypeStringPlaceholder THEN Named(n, <<"}">>)
    ELSE IF tp = TokenTypeNumber THEN Named(n, CommaNumber \o <<"}">>)
    ELSE IF tp \in {TokenTypeCurrencyRounded, TokenTypeCurrencyFull,
                    TokenTypeCurrencyCodeRounded, TokenTypeCurrencyCodeFull}
    THEN Named(n, CommaCurrency \o <<"}">>)
    ELSE IF tp = TokenTypeTimeFull
    THEN Named(n, CommaTime \o <<"f", "u", "l", "l", "}">>)
    ELSE IF tp = TokenTypeTimeShort
    THEN Named(n, CommaTime \o <<"s", "h", "o", "r", "t", "}">>)
    ELSE IF tp = TokenTypeOrdinalPlural
    THEN Named(n, CommaSelectordinal \o OtherOpen \o <<"#">>
                  \o Deref(translator.conf).MagicConstants.OrdinalPlural.DefaultICUSuffix
                  \o <<"}", "}">>)
    ELSE IF tp = TokenTypeCardinalPluralStart
    THEN Named(n, CommaPlural \o OtherOpen \o <<"#", " ">>)
    ELSE IF tp = TokenTypeCardinalPluralEnd THEN <<"}", "}">>
    ELSE <<>>

\* The token types that StatedEmission covers.
StatedTypes ==
    {TokenTypeContext, TokenTypeStringPlaceholder, TokenTypeNumber,
     TokenTypeCurrencyRounded, TokenTypeCurrencyFull, TokenTypeCurrencyCodeRounded,
     TokenTypeCurrencyCodeFull, TokenTypeTimeFull, TokenTypeTimeShort,
     TokenTypeOrdinalPlural, TokenTypeCardinalPluralStart,
     TokenTypeCardinalPluralEnd}

\* C22: without modifiers, what the translator writes for a token is the
\* stated function of its type and its positional name: {<N>} for a string
\* placeholder, {<N>, number} for a number, {<N>, number, ::currency/auto} for
\* a currency, {<N>, time, X} for a time, the selectordinal and plural
\* openers, }} for the end of a plural block and nothing for a context.
C22_EmissionByType ==
    (Translated /\ modifiers.isNil) =>
        \A k \in DOMAIN tik.Tokens :
            tik.Tokens[k].Type \in StatedTypes =>
                written[k] = StatedEmission(tik.Tokens[k].Type, ConsumedBefore(k))

\* s with every ' doubled.
RECURSIVE EscapeQuote(_)
EscapeQuote(s) ==
    IF s = <<>> THEN <<>>
    ELSE (IF Head(s) = "'" THEN <<"'", "'">> ELSE <<Head(s)>>) \o EscapeQuote(Tail(s))

\* C23: for every Literal token the translator writes the unescaped text of
\* the token with every ' replaced by '' and no other character changed.
C23_LiteralQuoteEscaped ==
    Translated =>
        \A k \in DOMAIN tik.Tokens :
            tik.Tokens[k].Type = TokenTypeStringLiteral =>
                written[k] = EscapeQuote(TokenString(tik.Tokens[k], tik.Raw))

\* The offset behind the last character of s that is no whitespace, 0 if
\* there is none.
Trail(s) ==
    CHOOSE k \in 0..Len(s) :
        /\ \A j \in k..(Len(s) - 1) : IsSpace(At(s, j))
        /\ k = 0 \/ ~IsSpace(At(s, k - 1))

\* C24: in every successful parse result each token has
\* 0 <= IndexStart <= IndexEnd <= len(input), starts at or after the end of
\* the token before it, and starts exactly there unless that token is the
\* context; and no span reaches into the whitespace at the very start or the
\* very end of the input.
C24_TokensOrdered ==
    ParsedOk =>
        \A k \in DOMAIN tik.Tokens :
            /\ 0 <= tik.Tokens[k].IndexStart
            /\ tik.Tokens[k].IndexStart <= tik.Tokens[k].IndexEnd
            /\ tik.Tokens[k].IndexEnd <= Len(input)
            /\ tik.Tokens[k].IndexStart >= Lead(input)
            /\ tik.Tokens[k].IndexEnd <= Trail(input)
            /\ k > 1 =>
                  /\ tik.Tokens[k].IndexStart >= tik.Tokens[k - 1].IndexEnd
                  /\ tik.Tokens[k - 1].Type # TokenTypeContext =>
                        tik.Tokens[k].IndexStart = tik.Tokens[k - 1].IndexEnd

\* An input with whitespace at its start and its end was parsed into a
\* context and two tokens of the text body or more.
C24_Witness ==
    /\ ParsedOk
    /\ Lead(input) > 0
    /\ Trail(input) < Len(input)
    /\ Len(tik.Tokens) >= 3
    /\ tik.Tokens[1].Type = TokenTypeContext

(***************************************************************************)
(* C25: Parse ends without a panic, its loops advance and stay in range.   *)
(***************************************************************************)
\* Every iteration read s[offset:] and s[iDir] inside the input.
ScanInRange ==
    \A k \in 1..Len(scanned) :
        /\ 0 <= scanned[k].offset /\ scanned[k].offset <= Len(input)
        /\ \/ scanned[k].iDir = -1
           \/ scanned[k].offset <= scanned[k].iDir /\ scanned[k].iDir < Len(input)

\* Every iteration began at a larger offset than the one before it.
ScanAdvances ==
    \A k \in 1..(Len(scanned) - 1) : scanned[k].offset < scanned[k + 1].offset

\* C25: under every configuration that is not nil, validated or not, Parse
\* and ParseFn return a TIK or an error and do not panic; the loops of the
\* tokenizer end, every iteration begins at a larger read offset than the
\* one before, and the offsets the input is read at lie inside the input.
C25_ParseEndsInRange ==
    /\ err.Err # Panic
    /\ err.Err # ErrNil => tik = ZeroTIK
    /\ ScanInRange
    /\ ScanAdvances
    /\ Len(scanned) <= Len(input) + 1

\* A parser of a configuration that was never validated (its Number is the
\* empty string) went through a plural opener and three more iterations.
C25_Witness ==
    /\ pc = "parsed"
    /\ parser.conf = "&confEmpty"
    /\ Len(scanned) >= 4
    /\ \E k \in 1..Len(scanned) :
          scanned[k].iDir # -1 /\ At(input, scanned[k].iDir) = "{"
          /\ k < Len(scanned) /\ scanned[k + 1].offset = scanned[k].iDir + 3

(***************************************************************************)
(* C26: the plural tokens of a TIK alternate and the last one is an End.   *)
(***************************************************************************)
\* The plural block tokens of tokens, in their order.
IsPluralToken(t) ==
    t.Type \in {TokenTypeCardinalPluralStart, TokenTypeCardinalPluralEnd}

PluralTokens(tokens) == SelectSeq(tokens, IsPluralToken)

\* C26: in the tokens of a TIK that Parse returned, the CardinalPluralStart
\* and CardinalPluralEnd tokens alternate, the first being a Start and the
\* last an End: no TIK ends inside an open plural block.
C26_PluralBlocksClosed ==
    ParsedOk =>
        /\ \A k \in 1..Len(PluralTokens(tik.Tokens)) :
              PluralTokens(tik.Tokens)[k].Type
                 = IF k % 2 = 1 THEN TokenTypeCardinalPluralStart
                   ELSE TokenTypeCardinalPluralEnd
        /\ Len(PluralTokens(tik.Tokens)) % 2 = 0

(***************************************************************************)
(* C27: no token of a TIK is empty.                                        *)
(***************************************************************************)
\* C27: every token of a TIK that Parse returned spans at least one byte:
\* its IndexStart is less than its IndexEnd.
C27_TokensNotEmpty ==
    ParsedOk =>
        \A k \in 1..Len(tik.Tokens) :
            tik.Tokens[k].IndexStart < tik.Tokens[k].IndexEnd

(***************************************************************************)
(* C28: what Tokenize appends does not depend on what the buffer holds.    *)
(***************************************************************************)
\* C28: the error of a Tokenize call is the one of the call with an empty
\* buffer on the same input and configuration, and on success the result is
\* the buffer of the caller followed by the tokens of that call.
C28_BufferIgnored ==
    Tokenized =>
        \A fresh \in {Tokenize(<<>>, input, call.c)} :
            /\ ret.Err = fresh.Err
            /\ ret.Err.Err = ErrNil => ret.Tokens = call.buffer \o fresh.Tokens

(***************************************************************************)
(* C29: a parser answers each call as a new parser would.                  *)
(***************************************************************************)
\* C29: what a later Parse or ParseFn of a parser returns (the TIK returned
\* or handed to the callback, the error and its index) is what Parse of a
\* parser newly made from the same configuration returns for the same
\* input, whether the earlier call succeeded or failed.
C29_AsFreshParser ==
    ParsedLater =>
        \A fresh \in {Parse(NewParser(parser.conf), later)} :
            laterRet = Result(fresh.tik, fresh.err)

\* The earlier call returned several tokens and the later call returned
\* fewer.
C29_Witness ==
    /\ ParsedLater
    /\ err.Err = ErrNil
    /\ Len(tik.Tokens) >= 3
    /\ laterRet.err.Err = ErrNil
    /\ Len(laterRet.tik.Tokens) \in 1..2

(***************************************************************************)
(* C30: under a validated configuration a body has one role at most.       *)
(***************************************************************************)
\* The token types of the roles that the body b matches under the parser's
\* configuration: the constants it equals up to letter case, and the plural
\* opener if b begins with it and a whitespace follows.
Roles(b) ==
    {ct[2] : ct \in ConstantsOf(b)}
    \cup (IF /\ PluralStart # <<>>
             /\ BeginsWithPluralStart(b)
             /\ Len(b) > Len(PluralStart)
             /\ IsSpace(At(b, Len(PluralStart)))
          THEN {TokenTypeCardinalPluralStart} ELSE {})

\* C30: when Validate accepts the configuration of the parser, the body of a
\* directive matches one role at most, and the token that Parse returns for
\* the directive has the type of every role the body matches.
C30_OneRolePerBody ==
    (/\ Parsed
     /\ Validate(Deref(parser.conf)) = ErrNil
     /\ LeadingDirective
     /\ LeadingBody # <<>>
     /\ LeadingBody[1] # "\"") =>
        /\ Cardinality(Roles(LeadingBody)) <= 1
        /\ err.Err = ErrNil =>
              \A role \in Roles(LeadingBody) : tik.Tokens[1].Type = role

=============================================================================
